---- MODULE Spec2Model ----
(***************************************************************************)
(* Model of quahl's inter-process control channel:                         *)
(*   src/quahl/ipc/jsonrpc.py   JSONRPCProvider (registry, request         *)
(*                              processor, response builders)              *)
(*   src/quahl/ipc/__init__.py  RPCInterface (built-in methods) and        *)
(*                              ConnectionHandler (framing, socket writes) *)
(*                                                                         *)
(* Conventions                                                             *)
(*  - A JSON value is a tagged record (JNull, JBool, JNum, JStr, JList,    *)
(*    JObj); a JSON object holds a function from its keys to JSON values.  *)
(*  - A Python call that may raise is modelled by a record with the field  *)
(*    exc: <<>> when it returned, <<e>> when it raised the exception e.    *)
(*  - bytes | None is modelled by NoBytes (None), Single(r) (one           *)
(*    serialized response object) and Batch(rs) (the text built by         *)
(*    prepare_batch).                                                      *)
(*  - Bytes on the wire are tokens: the control bytes CR, LF, NUL, SP and  *)
(*    payload tokens standing for a run of bytes (a JSON text, a text that *)
(*    is not JSON, bytes that are not UTF-8, ...).                         *)
(***************************************************************************)
EXTENDS Integers, Sequences, FiniteSets, TLC

(***************************************************************************)
(* Bounds of the model.                                                    *)
(***************************************************************************)
\* longest batch (JSON array) the client sends
MaxBatch == 3
\* most calls the application makes on the registry before it returns to the
\* event loop
MaxCalls == 2
\* most bytes (tokens) the buffer holds when more data arrives
MaxBuffer == 3

(***************************************************************************)
(* JSON values (what json.loads returns / json.dumps accepts).             *)
(***************************************************************************)
JNull == [t |-> "null"]
JBool(b) == [t |-> "bool", b |-> b]
JNum(n) == [t |-> "num", n |-> n]
JStr(s) == [t |-> "str", s |-> s]
JList(l) == [t |-> "list", l |-> l]
JObj(o) == [t |-> "obj", o |-> o]
\* a Python object json.dumps cannot serialize (a handler may return one)
PyObject == [t |-> "pyobj"]

EmptyMap == [k \in {} |-> JNull]

\* Python truth value of a JSON value: `if request`, `if not params`, `if obj`
Truthy(v) ==
    CASE v.t = "null" -> FALSE
      [] v.t = "bool" -> v.b
      [] v.t = "num" -> v.n # 0
      [] v.t = "str" -> v.s # ""
      [] v.t = "list" -> Len(v.l) # 0
      [] v.t = "obj" -> DOMAIN v.o # {}
      [] OTHER -> TRUE

\* the characters of the strings whose content the code looks into
\* (`"id" in request` on a str is a substring test); any other string of the
\* model holds neither "id" nor "jsonrpc" and is one opaque character
Chars(s) ==
    CASE s = "" -> <<>>
      [] s = "id" -> <<"i", "d">>
      [] s = "jsonrpc" -> <<"j", "s", "o", "n", "r", "p", "c">>
      [] s = "valid" -> <<"v", "a", "l", "i", "d">>
      [] OTHER -> <<s>>

\* str.__contains__: sub occurs in s as a contiguous run
IsSubstring(sub, s) ==
    LET a == Chars(sub)
        b == Chars(s)
    IN \E i \in 0..(Len(b) - Len(a)) : SubSeq(b, i + 1, i + Len(a)) = a

\* Python exceptions: the class and the text of str(e)
Exc(type, text) == [type |-> type, text |-> text]

\* `key in request` raises TypeError unless request is a container or a str
ContainsRaises(request) == request.t \notin {"obj", "list", "str"}

\* `key in request` taken for "request holds a true value under key"
Contains_truthy_value(request, key) ==
    CASE request.t = "obj" -> key \in DOMAIN request.o /\ Truthy(request.o[key])
      [] request.t = "list" -> \E i \in 1..Len(request.l) : request.l[i] = JStr(key)
      [] request.t = "str" -> IsSubstring(key, request.s)
      [] OTHER -> FALSE

\* `key in request` for a dict (its keys), a list (its elements), a str (substring)
Contains(request, key) ==
    CASE request.t = "obj" -> key \in DOMAIN request.o
      [] request.t = "list" -> \E i \in 1..Len(request.l) : request.l[i] = JStr(key)
      [] request.t = "str" -> IsSubstring(key, request.s)
      [] OTHER -> FALSE

\* str(e) of the TypeError raised by `key in request`
NotIterableText(request) ==
    CASE request.t = "null" -> "argument of type 'NoneType' is not iterable"
      [] request.t = "bool" -> "argument of type 'bool' is not iterable"
      [] OTHER -> "argument of type 'int' is not iterable"

\* `request[key]` raises TypeError on a str or a list (indices must be integers)
GetItemRaises(request) == request.t # "obj"

GetItemText(request) ==
    IF request.t = "str" THEN "string indices must be integers, not 'str'"
    ELSE "list indices must be integers or slices, not str"

\* `request[key]` on a dict that holds key
GetItem(request, key) == request.o[key]

(***************************************************************************)
(* jsonrpc.py: constants and response builders.                            *)
(***************************************************************************)
JSONRPC_REQUEST_FIELDS == {"jsonrpc", "method", "params", "id"}

ParseError == -32700
InvalidRequest == -32600
MethodNotFound == -32601
InvalidParams == -32602
InternalError == -32603

\* an error message: its text and, for the unknown-keys message, the keys named
Msg(text) == [text |-> text, names |-> {}]
MsgNames(text, names) == [text |-> text, names |-> names]

\* prepare_error with the id argument dropped: every error carries id null
prepare_error_drops_id(code, message, id) ==
    [kind |-> "error", code |-> code, message |-> message, result |-> JNull,
     id |-> JNull]

\* prepare_error(code, message, id=None): the JSON object it serializes
prepare_error(code, message, id) ==
    [kind |-> "error", code |-> code, message |-> message, result |-> JNull, id |-> id]

\* prepare_response(result, id): the JSON object it serializes
prepare_response(result, id) ==
    [kind |-> "result", code |-> 0, message |-> Msg(""), result |-> result, id |-> id]

\* json.dumps raises TypeError for an object that is not JSON serializable
RECURSIVE Serializable(_)
Serializable(v) ==
    CASE v.t = "pyobj" -> FALSE
      [] v.t = "list" -> \A i \in 1..Len(v.l) : Serializable(v.l[i])
      [] v.t = "obj" -> \A k \in DOMAIN v.o : Serializable(v.o[k])
      [] OTHER -> TRUE

\* bytes | None
NoBytes == [t |-> "none"]
Single(r) == [t |-> "single", r |-> r]
Batch(rs) == [t |-> "batch", rs |-> rs]

\* truth value of bytes | None: None and b"" are false.  A serialized object is
\* never empty, and the text of prepare_batch holds at least its brackets.
BytesTruthy(b) == b.t # "none"

\* the elements of objs that pass `if obj`, in order
RECURSIVE KeepTruthy(_)
KeepTruthy(objs) ==
    IF objs = <<>> THEN <<>>
    ELSE (IF BytesTruthy(Head(objs)) THEN <<Head(objs).r>> ELSE <<>>)
         \o KeepTruthy(Tail(objs))

\* prepare_batch(objs): "[" + the non-empty objs joined by "," + "]"
prepare_batch(objs) == Batch(KeepTruthy(objs))

(***************************************************************************)
(* Callables.  The bound methods of RPCInterface (ipc/__init__.py) and one *)
(* callable of the embedding application, Ext, whose behaviour is an input *)
(* of the model.  A callable is named by its __name__.                     *)
(***************************************************************************)
\* the providers: the RPCInterface the Server builds and a second RPCInterface
Instances == {"interface", "second"}

\* the bound method self.fn; two bound methods are equal when the instance and
\* the function are
Bound(self, fn) == IF self = "interface" THEN fn ELSE "second." \o fn

InterfaceMethods == {"echo", "return_", "disappear", "hello"}

Callables ==
    {Bound(self, fn) : self \in Instances, fn \in InterfaceMethods} \cup {"ext"}

\* method.__name__
NameOf(method) ==
    CASE method = Bound("second", "echo") -> "echo"
      [] method = Bound("second", "return_") -> "return_"
      [] method = Bound("second", "disappear") -> "disappear"
      [] method = Bound("second", "hello") -> "hello"
      [] OTHER -> method
\* an object that is not callable, e.g. the integer 42
NotCallable == "notcallable"

\* arguments of a call: positional values and keyword values
NoArgs == [pos |-> <<>>, kw |-> EmptyMap]
PosArgs(l) == [pos |-> l, kw |-> EmptyMap]
KwArgs(o) == [pos |-> <<>>, kw |-> o]

\* outcome of a call: it raised (exc), or returned val; bound tells whether the
\* arguments matched the signature, that is whether the body ran
Raised(e, bound) == [exc |-> <<e>>, val |-> JNull, bound |-> bound]
Returned(v) == [exc |-> <<>>, val |-> v, bound |-> TRUE]

\* Python's argument binding for a bound method with the positional-or-keyword
\* parameters names, the first `required` of them without default
BindOk(names, required, a) ==
    /\ Len(a.pos) <= Len(names)
    /\ DOMAIN a.kw \subseteq {names[i] : i \in 1..Len(names)}
    /\ \A i \in 1..Len(a.pos) : names[i] \notin DOMAIN a.kw
    /\ \A i \in 1..required : i <= Len(a.pos) \/ names[i] \in DOMAIN a.kw

\* the value bound to the i-th parameter
Arg(names, a, i, default) ==
    IF i <= Len(a.pos) THEN a.pos[i]
    ELSE IF names[i] \in DOMAIN a.kw THEN a.kw[names[i]]
    ELSE default

BindError == Exc("TypeError", "arguments do not match the signature")

\* str(v) as an f-string formats it, for the scalars the model passes
PyStr(v) ==
    CASE v.t = "str" -> v.s
      [] v.t = "num" -> ToString(v.n)
      [] v.t = "bool" -> (IF v.b THEN "True" ELSE "False")
      [] v.t = "null" -> "None"
      [] OTHER -> "<object>"

\* RPCInterface.hello(self, name="World")
hello(a) ==
    IF ~BindOk(<<"name">>, 0, a) THEN Raised(BindError, FALSE)
    ELSE Returned(JStr("Hello " \o PyStr(Arg(<<"name">>, a, 1, JStr("World"))) \o "!"))

\* RPCInterface.echo(self, s): prints, returns None
echo(a) ==
    IF ~BindOk(<<"s">>, 1, a) THEN Raised(BindError, FALSE)
    ELSE Returned(JNull)

\* RPCInterface.return_(self, x)
return_(a) ==
    IF ~BindOk(<<"x">>, 1, a) THEN Raised(BindError, FALSE)
    ELSE Returned(Arg(<<"x">>, a, 1, JNull))

\* disappear of an RPCInterface that has a method toggle: remove_method is
\* called and the handler returns None
disappear_with_toggle(a) ==
    IF ~BindOk(<<>>, 0, a) THEN Raised(BindError, FALSE)
    ELSE Returned(JNull)

\* RPCInterface.disappear(self): evaluating self.toggle raises AttributeError
\* before remove_method is called
disappear(a) ==
    IF ~BindOk(<<>>, 0, a) THEN Raised(BindError, FALSE)
    ELSE Raised(Exc("AttributeError", "'RPCInterface' object has no attribute 'toggle'"), TRUE)

\* what the embedding application's callable may do when it is called: return a
\* JSON value, return an object json.dumps rejects, or raise
ExtBehaviours ==
    { Returned(JNum(7)), Returned(PyObject),
      Raised(Exc("TypeError", "ext: bad argument type"), TRUE),
      Raised(Exc("ValueError", "ext: bad argument value"), TRUE),
      Raised(Exc("RuntimeError", "ext: failed"), TRUE) }

\* self._methods[method](...): the call of callable fn with arguments a
Invoke(fn, a, beh) ==
    CASE NameOf(fn) = "hello" -> hello(a)
      [] NameOf(fn) = "echo" -> echo(a)
      [] NameOf(fn) = "return_" -> return_(a)
      [] NameOf(fn) = "disappear" -> disappear(a)
      [] OTHER -> beh

(***************************************************************************)
(* JSONRPCProvider: the method registry.  _methods is a class attribute:   *)
(* one dict shared by every instance.                                      *)
(***************************************************************************)
EmptyMethods == [k \in {} |-> ""]

\* add_method that stores the callable without looking for the name first
add_method_overwrites(meths, method, alias) ==
    IF method \notin Callables THEN [methods |-> meths, ret |-> "False"]
    ELSE [methods |-> [k \in DOMAIN meths
                            \cup {IF alias = "" THEN NameOf(method) ELSE alias} |->
                          IF k = (IF alias = "" THEN NameOf(method) ELSE alias)
                          THEN method ELSE meths[k]],
          ret |-> IF (IF alias = "" THEN NameOf(method) ELSE alias) \in DOMAIN meths
                  THEN "False" ELSE "None"]

\* add_method(method, alias): the dict afterwards and the value returned
\* ("False", or "None" when the function ends without a return statement);
\* alias "" stands for no alias
add_method(meths, method, alias) ==
    IF method \notin Callables THEN [methods |-> meths, ret |-> "False"]
    ELSE LET name == IF alias = "" THEN NameOf(method) ELSE alias
         IN IF name \in DOMAIN meths THEN [methods |-> meths, ret |-> "False"]
            ELSE [methods |-> [k \in DOMAIN meths \cup {name} |->
                                   IF k = name THEN method ELSE meths[k]],
                  ret |-> "None"]

\* remove_method that reports the removal without deleting the entry
remove_method_keeps(meths, is_str, method_or_alias) ==
    IF ~is_str /\ method_or_alias \notin Callables
    THEN [methods |-> meths, ret |-> "False"]
    ELSE [methods |-> meths,
          ret |-> IF (IF is_str THEN method_or_alias ELSE NameOf(method_or_alias))
                         \in DOMAIN meths
                  THEN "True" ELSE "False"]

\* remove_method(method_or_alias): is_str tells a name from an object; a
\* callable is looked up by its __name__
remove_method(meths, is_str, method_or_alias) ==
    IF ~is_str /\ method_or_alias \notin Callables
    THEN [methods |-> meths, ret |-> "False"]
    ELSE LET name == IF is_str THEN method_or_alias ELSE NameOf(method_or_alias)
         IN IF name \in DOMAIN meths
            THEN [methods |-> [k \in DOMAIN meths \ {name} |-> meths[k]],
                  ret |-> "True"]
            ELSE [methods |-> meths, ret |-> "False"]

\* RPCInterface.__init__ of the instance self: the registry afterwards
RPCInterfaceInit(self, meths) ==
    LET m1 == add_method(meths, Bound(self, "echo"), "").methods
        m2 == add_method(m1, Bound(self, "return_"), "return").methods
        m3 == add_method(m2, Bound(self, "disappear"), "").methods
    IN add_method(m3, Bound(self, "hello"), "").methods

\* a dict the application holds: `live` tells whether it is the registry's own
\* dict object (then its items are those of the registry) or another object
\* with the items d
copy(d) == [live |-> FALSE, d |-> d]

\* the property handing out self._methods itself
methods_property_live(meths) == [live |-> TRUE, d |-> EmptyMethods]

\* the property JSONRPCProvider.methods
methods_property(meths) == copy(meths)

\* d[name] = value on a dict
SetItem(d, name, value) ==
    [k \in DOMAIN d \cup {name} |-> IF k = name THEN value ELSE d[k]]

\* del d[name] on a dict that holds name
DelItem(d, name) == [k \in DOMAIN d \ {name} |-> d[k]]

\* a call of the application's callable that also works on the registry: the
\* callable holds the provider and calls its add_method or remove_method before
\* it returns v
Registers(method, alias, v) ==
    [exc |-> <<>>, val |-> v, bound |-> TRUE,
     effect |-> [op |-> "add_method", method |-> method, alias |-> alias]]
Removes(name, v) ==
    [exc |-> <<>>, val |-> v, bound |-> TRUE,
     effect |-> [op |-> "remove_method", name |-> name]]

\* the batch works on a copy of the registry taken before its first entry: what
\* a called method does to the registry is not seen
AfterCall_on_copy(out, meths) == meths

\* the registry after the call with outcome out, made with the registry meths:
\* _methods is the one dict the called method works on, too
AfterCall(out, meths) ==
    IF "effect" \notin DOMAIN out THEN meths
    ELSE IF out.effect.op = "add_method"
    THEN add_method(meths, out.effect.method, out.effect.alias).methods
    ELSE remove_method(meths, TRUE, out.effect.name).methods

(***************************************************************************)
(* JSONRPCProvider: the request processor.                                 *)
(* A step of it gives [exc, ret, calls, methods]: the exception that left  *)
(* it (exc), the bytes | None it returned (ret), the calls of registered   *)
(* methods it made (calls) and the registry afterwards (methods).          *)
(***************************************************************************)
Return(bytes, calls, meths) ==
    [exc |-> <<>>, ret |-> bytes, calls |-> calls, methods |-> meths]
Raise(e, calls, meths) ==
    [exc |-> <<e>>, ret |-> NoBytes, calls |-> calls, methods |-> meths]

\* the record of one call of a registered method: the callable, the name it
\* was called by, whether the arguments bound (the body ran), whether it raised
CallRecord(out, fn, method) ==
    [fn |-> fn, name |-> method, bound |-> out.bound, raised |-> out.exc # <<>>,
     exc |-> out.exc]

\* the try block with `except (TypeError, ValueError)` left out: every exception
\* of the call reaches `except Exception`
CallOutcome_one_except(out, fn, method, meths, is_notification, id) ==
    IF out.exc # <<>>
    THEN [exc |-> <<>>,
          ret |-> Single(prepare_error(InternalError,
                      Msg("Internal error: " \o out.exc[1].text), JNull)),
          calls |-> <<CallRecord(out, fn, method)>>, methods |-> AfterCall(out, meths)]
    ELSE [exc |-> <<>>,
          ret |-> IF is_notification THEN NoBytes
                  ELSE Single(prepare_response(out.val, id)),
          calls |-> <<CallRecord(out, fn, method)>>, methods |-> AfterCall(out, meths)]

\* lines 175-201: what the try block does with the outcome `out` of the call
\* of fn, registered as `method`
CallOutcome(out, fn, method, meths, is_notification, id) ==
    IF out.exc # <<>>
    THEN IF out.exc[1].type \in {"TypeError", "ValueError"}
         THEN Return(Single(prepare_error(InvalidParams,
                  Msg("Invalid params: " \o out.exc[1].text), JNull)),
                  <<CallRecord(out, fn, method)>>, AfterCall(out, meths))
         ELSE Return(Single(prepare_error(InternalError,
                  Msg("Internal error: " \o out.exc[1].text), JNull)),
                  <<CallRecord(out, fn, method)>>, AfterCall(out, meths))
    ELSE IF is_notification
    THEN Return(NoBytes, <<CallRecord(out, fn, method)>>, AfterCall(out, meths))
    ELSE IF ~Serializable(out.val)
    \* json.dumps raises TypeError inside the try block
    THEN Return(Single(prepare_error(InvalidParams,
             Msg("Invalid params: Object is not JSON serializable"), JNull)),
             <<CallRecord(out, fn, method)>>, AfterCall(out, meths))
    ELSE Return(Single(prepare_response(out.val, id)),
                <<CallRecord(out, fn, method)>>, AfterCall(out, meths))

\* the dispatch without * and **: params is passed on as one argument
Dispatch_no_unpacking(request, meths, beh, is_notification, id) ==
    IF ~Contains(request, "params") \/ ~Truthy(GetItem(request, "params"))
    THEN CallOutcome(Invoke(meths[GetItem(request, "method").s], NoArgs, beh),
                     meths[GetItem(request, "method").s],
                     GetItem(request, "method").s, meths, is_notification, id)
    ELSE IF GetItem(request, "params").t \in {"list", "obj"}
    THEN CallOutcome(Invoke(meths[GetItem(request, "method").s],
                            PosArgs(<<GetItem(request, "params")>>), beh),
                     meths[GetItem(request, "method").s],
                     GetItem(request, "method").s, meths, is_notification, id)
    ELSE Return(Single(prepare_error(InvalidRequest,
             Msg("Invalid request: 'params' must be absent, array or object"),
             JNull)), <<>>, meths)

\* lines 173-187: the shape of params decides how the method is called
Dispatch(request, meths, beh, is_notification, id) ==
    LET method == GetItem(request, "method").s
        params == IF Contains(request, "params") THEN GetItem(request, "params")
                  ELSE JNull
    IN IF ~Truthy(params)
       THEN CallOutcome(Invoke(meths[method], NoArgs, beh),
                        meths[method], method, meths, is_notification, id)
       ELSE IF params.t = "list"
       THEN CallOutcome(Invoke(meths[method], PosArgs(params.l), beh),
                        meths[method], method, meths, is_notification, id)
       ELSE IF params.t = "obj"
       THEN CallOutcome(Invoke(meths[method], KwArgs(params.o), beh),
                        meths[method], method, meths, is_notification, id)
       ELSE Return(Single(prepare_error(InvalidRequest,
                Msg("Invalid request: 'params' must be absent, array or object"),
                JNull)), <<>>, meths)

\* lines 157-166: the request holds keys outside _JSONRPC_REQUEST_FIELDS
UnknownFields(request, meths) ==
    LET unknown_fields == DOMAIN request.o \ JSONRPC_REQUEST_FIELDS
    IN IF Cardinality(unknown_fields) > 1
       THEN Return(Single(prepare_error(InvalidRequest,
                MsgNames("Invalid request: unknown keys", unknown_fields), JNull)),
                <<>>, meths)
       \* unknown_fields[0]: a set cannot be indexed
       ELSE Raise(Exc("TypeError", "'set' object is not subscriptable"), <<>>, meths)

\* lines 167-172: the registry lookup
Lookup(request, meths, beh, is_notification, id) ==
    LET method == GetItem(request, "method")
    IN IF method.t \in {"list", "obj"}
       THEN Raise(Exc("TypeError", "unhashable type"), <<>>, meths)
       ELSE IF ~(method.t = "str" /\ method.s \in DOMAIN meths)
       THEN Return(Single(prepare_error(MethodNotFound,
                MsgNames("Method not found: no method named", {PyStr(method)}), id)),
                <<>>, meths)
       ELSE Dispatch(request, meths, beh, is_notification, id)

\* JSONRPCProvider._process_single(request)
ProcessSingle(request, meths, beh) ==
    IF ContainsRaises(request)
    THEN Raise(Exc("TypeError", NotIterableText(request)), <<>>, meths)
    ELSE LET is_notification == ~Contains(request, "id")
         IN IF ~is_notification /\ GetItemRaises(request)
            THEN Raise(Exc("TypeError", GetItemText(request)), <<>>, meths)
            ELSE LET id == IF is_notification THEN JNull ELSE GetItem(request, "id")
                 IN IF ~Contains(request, "jsonrpc")
                    THEN Return(Single(prepare_error(InvalidRequest,
                             Msg("Invalid request: 'jsonrpc' key missing"), id)),
                             <<>>, meths)
                    ELSE IF GetItemRaises(request)
                    THEN Raise(Exc("TypeError", GetItemText(request)), <<>>, meths)
                    ELSE IF GetItem(request, "jsonrpc") # JStr("2.0")
                    THEN Return(Single(prepare_error(InvalidRequest,
                             Msg("Invalid request: 'jsonrpc' must be exactly '2.0'"), id)),
                             <<>>, meths)
                    ELSE IF ~Contains(request, "method")
                    THEN Return(Single(prepare_error(InvalidRequest,
                             Msg("Invalid request: 'method' key missing"), id)),
                             <<>>, meths)
                    ELSE IF ~(DOMAIN request.o \subseteq JSONRPC_REQUEST_FIELDS)
                    THEN UnknownFields(request, meths)
                    ELSE Lookup(request, meths, beh, is_notification, id)

\* the list comprehension of _process_batch: the entries that pass `if request`
\* are processed in order; an exception leaving _process_single ends it
RECURSIVE BatchResults(_, _, _, _, _)
RECURSIVE BatchStep(_, _, _, _, _)

\* r is what _process_single did with the first of requests
BatchStep(r, requests, beh, results, calls) ==
    IF r.exc # <<>>
    THEN [exc |-> r.exc, results |-> results, calls |-> calls \o r.calls,
          methods |-> r.methods]
    ELSE BatchResults(Tail(requests), r.methods, beh,
                      Append(results, r.ret), calls \o r.calls)

BatchResults(requests, meths, beh, results, calls) ==
    IF requests = <<>> THEN [exc |-> <<>>, results |-> results, calls |-> calls,
                             methods |-> meths]
    ELSE IF ~Truthy(Head(requests))
    THEN BatchResults(Tail(requests), meths, beh, results, calls)
    ELSE BatchStep(ProcessSingle(Head(requests), meths, beh),
                   requests, beh, results, calls)

\* lines 132-134: b is what the list comprehension gave
BatchReturn(b) ==
    IF b.exc # <<>> THEN Raise(b.exc[1], b.calls, b.methods)
    ELSE IF Len(b.results) # 0
    THEN Return(prepare_batch(b.results), b.calls, b.methods)
    ELSE Return(NoBytes, b.calls, b.methods)

\* JSONRPCProvider._process_batch(requests)
ProcessBatch(requests, meths, beh) ==
    BatchReturn(BatchResults(requests, meths, beh, <<>>, <<>>))

(***************************************************************************)
(* Bytes.  A frame is a sequence of tokens.                                *)
(***************************************************************************)
CR == [k |-> "cr"]
LF == [k |-> "lf"]
NUL == [k |-> "nul"]
SP == [k |-> "sp"]
\* json.dumps(v) as UTF-8
Text(v) == [k |-> "json", v |-> v]
\* bytes that are not UTF-8, e.g. b"\xff"
NotUtf8 == [k |-> "notutf8"]
\* UTF-8 text that is not JSON, e.g. b'{"jsonrpc":"2.0",'
NotJson == [k |-> "notjson"]
\* UTF-8 text that is not JSON and opens more arrays than the interpreter's
\* recursion limit allows, e.g. 100000 times b"["
TooDeep == [k |-> "toodeep"]

\* b"\r\n\r\n"
Delimiter == <<CR, LF, CR, LF>>

\* the characters str.strip("\0\r\n\t ") removes
IsStripped(b) == b.k \in {"cr", "lf", "nul", "sp"}

RECURSIVE LStrip(_)
LStrip(s) == IF s # <<>> /\ IsStripped(Head(s)) THEN LStrip(Tail(s)) ELSE s

RECURSIVE RStrip(_)
RStrip(s) ==
    IF s # <<>> /\ IsStripped(s[Len(s)]) THEN RStrip(SubSeq(s, 1, Len(s) - 1)) ELSE s

\* str.strip("\0\r\n\t ")
Strip(s) == RStrip(LStrip(s))

\* str(raw_request, encoding="utf-8") raises UnicodeDecodeError
DecodeRaises(raw) == \E i \in 1..Len(raw) : raw[i].k = "notutf8"

\* json.loads(request_str): the value, a JSONDecodeError (no text, text that is
\* not JSON, data after the first value), or the RecursionError the scanner
\* raises before it reaches the end of a text nested too deep
Loads(request_str) ==
    IF request_str = <<>>
    THEN [exc |-> <<Exc("JSONDecodeError", "Expecting value")>>, val |-> JNull]
    ELSE IF Head(request_str).k = "toodeep"
    THEN [exc |-> <<Exc("RecursionError", "maximum recursion depth exceeded")>>,
          val |-> JNull]
    ELSE IF Head(request_str).k # "json"
    THEN [exc |-> <<Exc("JSONDecodeError", "Expecting value")>>, val |-> JNull]
    ELSE IF Len(request_str) > 1
    THEN [exc |-> <<Exc("JSONDecodeError", "Extra data")>>, val |-> JNull]
    ELSE [exc |-> <<>>, val |-> Head(request_str).v]

\* lines 124-128: the outer `except Exception` around the processing r
OuterGuard(r) ==
    IF r.exc # <<>>
    THEN Return(Single(prepare_error(InternalError,
             Msg("Internal error: " \o r.exc[1].text), JNull)), r.calls, r.methods)
    ELSE r

\* lines 120-128: batch or single, inside the outer try/except Exception
Process(request, meths, beh) ==
    IF request.t = "list" THEN OuterGuard(ProcessBatch(request.l, meths, beh))
    ELSE OuterGuard(ProcessSingle(request, meths, beh))

\* lines 113-128: parsed is what json.loads gave
Parsed(parsed, meths, beh) ==
    IF parsed.exc # <<>>
    THEN IF parsed.exc[1].type = "JSONDecodeError"
         THEN Return(Single(prepare_error(ParseError,
                  Msg("Parse error: " \o parsed.exc[1].text), JNull)), <<>>, meths)
         \* only json.JSONDecodeError is caught around json.loads
         ELSE Raise(parsed.exc[1], <<>>, meths)
    ELSE Process(parsed.val, meths, beh)

\* JSONRPCProvider.process_request(raw_request)
ProcessRequest(raw_request, meths, beh) ==
    IF DecodeRaises(raw_request)
    THEN Return(Single(prepare_error(ParseError,
             Msg("Parse error: 'utf-8' codec can't decode byte"), JNull)), <<>>, meths)
    ELSE Parsed(Loads(Strip(raw_request)), meths, beh)

(***************************************************************************)
(* ConnectionHandler: framing and socket writes.                           *)
(***************************************************************************)
\* bytes written to the socket
Payload(b) == [w |-> "payload", b |-> b]
WDelimiter == [w |-> "delimiter"]

\* b"Hello from Quahl!\r\n"
Greeting == [w |-> "greeting"]

\* endsWith(b"\r\n"): half the delimiter
EndsWithCRLF(buf) ==
    Len(buf) >= 2 /\ SubSeq(buf, Len(buf) - 1, Len(buf)) = <<CR, LF>>

\* QByteArray.endsWith(b"\r\n\r\n")
EndsWithDelimiter(buf) ==
    Len(buf) >= 4 /\ SubSeq(buf, Len(buf) - 3, Len(buf)) = Delimiter

\* _execute_buffer without the write of the delimiter
Executed_payload_only(r, buffered, meths, beh) ==
    [raw |-> buffered, processed |-> TRUE, beh |-> beh, exc |-> r.exc,
     result |-> r.ret, calls |-> r.calls,
     wrote |-> IF r.exc = <<>> /\ BytesTruthy(r.ret)
               THEN <<Payload(r.ret)>> ELSE <<>>,
     registry |-> meths, methods |-> r.methods]

\* _execute_buffer with the delimiter written outside the `if result:` block
Executed_delimiter_always(r, buffered, meths, beh) ==
    [raw |-> buffered, processed |-> TRUE, beh |-> beh, exc |-> r.exc,
     result |-> r.ret, calls |-> r.calls,
     wrote |-> IF r.exc = <<>> /\ BytesTruthy(r.ret)
               THEN <<Payload(r.ret), WDelimiter>> ELSE <<WDelimiter>>,
     registry |-> meths, methods |-> r.methods]

\* lines 98-102: r is what process_request did with the frame `buffered`
Executed(r, buffered, meths, beh) ==
    [raw |-> buffered, processed |-> TRUE, beh |-> beh, exc |-> r.exc,
     result |-> r.ret, calls |-> r.calls,
     wrote |-> IF r.exc = <<>> /\ BytesTruthy(r.ret)
               THEN <<Payload(r.ret), WDelimiter>> ELSE <<>>,
     registry |-> meths, methods |-> r.methods]

\* _execute_buffer that returns early when the buffer holds no payload, only the
\* delimiter and bytes that are stripped
ExecuteBuffer_skips_blank(buffered, meths, beh) ==
    IF Strip(buffered) = <<>>
    THEN [raw |-> buffered, processed |-> FALSE, beh |-> beh, exc |-> <<>>,
          result |-> NoBytes, calls |-> <<>>, wrote |-> <<>>,
          registry |-> meths, methods |-> meths]
    ELSE Executed(ProcessRequest(buffered, meths, beh), buffered, meths, beh)

\* ConnectionHandler._execute_buffer: the frame taken from the buffer (raw), the
\* registry before (registry) and after (methods), what the application's
\* callable does when called (beh), what process_request did (exc, result,
\* calls) and what was written to the socket (wrote)
ExecuteBuffer(buffered, meths, beh) ==
    IF buffered = <<>>
    THEN [raw |-> buffered, processed |-> FALSE, beh |-> beh, exc |-> <<>>,
          result |-> NoBytes, calls |-> <<>>, wrote |-> <<>>,
          registry |-> meths, methods |-> meths]
    ELSE Executed(ProcessRequest(buffered, meths, beh), buffered, meths, beh)

\* ConnectionHandler._handle_new_data: read the socket byte by byte, append to
\* the buffer, execute the buffer each time it ends with the delimiter.  An
\* exception leaving process_request leaves the slot: the bytes not yet read
\* stay in the socket.
RECURSIVE ReadLoop(_, _, _, _, _)
RECURSIVE AfterExecute(_, _, _, _)

\* the frame f together with the bytes that were still unread in the socket
\* when _execute_buffer returned
Frame(f, avail) ==
    [raw |-> f.raw, processed |-> f.processed, beh |-> f.beh, exc |-> f.exc,
     result |-> f.result, calls |-> f.calls, wrote |-> f.wrote,
     registry |-> f.registry, methods |-> f.methods, unread |-> avail]

\* f is what _execute_buffer did; avail are the bytes still to read
AfterExecute(f, avail, beh, handled) ==
    IF f.exc # <<>>
    THEN [inbox |-> avail, buffer |-> <<>>, methods |-> f.methods,
          handled |-> Append(handled, Frame(f, avail)), uncaught |-> f.exc]
    ELSE ReadLoop(avail, <<>>, f.methods, beh, Append(handled, Frame(f, avail)))

ReadLoop(avail, buf, meths, beh, handled) ==
    IF avail = <<>>
    THEN [inbox |-> <<>>, buffer |-> buf, methods |-> meths, handled |-> handled,
          uncaught |-> <<>>]
    ELSE IF ~EndsWithDelimiter(Append(buf, Head(avail)))
    THEN ReadLoop(Tail(avail), Append(buf, Head(avail)), meths, beh, handled)
    ELSE AfterExecute(ExecuteBuffer(Append(buf, Head(avail)), meths, beh),
                      Tail(avail), beh, handled)

\* the frames' writes with the newest frame's first
RECURSIVE Wrote_newest_first(_)
Wrote_newest_first(handled) ==
    IF handled = <<>> THEN <<>>
    ELSE Wrote_newest_first(Tail(handled)) \o Head(handled).wrote

\* everything the frames of one run wrote, in order
RECURSIVE Wrote(_)
Wrote(handled) ==
    IF handled = <<>> THEN <<>> ELSE Head(handled).wrote \o Wrote(Tail(handled))

(***************************************************************************)
(* Inputs: what a client sends and what the embedding application does.    *)
(***************************************************************************)
\* an absent key is <<>>, a present one <<value>>
Opt(S) == {<<>>} \cup {<<v>> : v \in S}

JsonrpcValues == {JStr("2.0"), JStr("1.0")}
MethodValues ==
    {JStr(n) : n \in {"hello", "echo", "return", "disappear", "ext", "nope"}}
    \cup {JNum(1), JList(<<>>)}
ParamsValues ==
    { JList(<<>>), JList(<<JStr("Alice")>>), JList(<<JStr("a"), JStr("b")>>),
      JObj(EmptyMap), JObj([k \in {"name"} |-> JStr("Alice")]),
      JObj([k \in {"x"} |-> JNum(5)]),
      JNum(0), JNum(1), JStr(""), JStr("x"), JNull, JBool(TRUE), JBool(FALSE) }
IdValues == {JNum(1), JNum(0), JStr("a"), JStr(""), JNull}
UnknownKeys == {"foo", "bar"}

\* the JSON object with the given members
RequestObject(jsonrpc, method, params, id, unknown) ==
    JObj([k \in (IF jsonrpc # <<>> THEN {"jsonrpc"} ELSE {})
                \cup (IF method # <<>> THEN {"method"} ELSE {})
                \cup (IF params # <<>> THEN {"params"} ELSE {})
                \cup (IF id # <<>> THEN {"id"} ELSE {})
                \cup unknown |->
            CASE k = "jsonrpc" -> jsonrpc[1]
              [] k = "method" -> method[1]
              [] k = "params" -> params[1]
              [] k = "id" -> id[1]
              [] OTHER -> JNum(1)])

\* every JSON object a client may send as a request
RequestObjects ==
    { RequestObject(j, m, p, i, u) :
        j \in Opt(JsonrpcValues), m \in Opt(MethodValues), p \in Opt(ParamsValues),
        i \in Opt(IdValues), u \in SUBSET UnknownKeys }

\* JSON values that are neither an object nor an array
Scalars ==
    { JNull, JBool(TRUE), JBool(FALSE), JNum(0), JNum(1),
      JStr(""), JStr("x"), JStr("id"), JStr("valid"), JStr("jsonrpc") }

Call(method, id) == RequestObject(<<JStr("2.0")>>, <<JStr(method)>>, <<>>, <<id>>, {})
CallWith(method, params, id) ==
    RequestObject(<<JStr("2.0")>>, <<JStr(method)>>, <<params>>, <<id>>, {})
Notification(method, params) ==
    RequestObject(<<JStr("2.0")>>, <<JStr(method)>>, <<params>>, <<>>, {})

\* the entries batches are built from
BatchEntries ==
    { Call("hello", JNum(1)),
      CallWith("return", JList(<<JStr("a")>>), JStr("a")),
      Notification("echo", JList(<<JStr("x")>>)),
      Notification("nope", JList(<<>>)),
      Call("nope", JNum(0)),
      Call("disappear", JStr("a")),
      RequestObject(<<JStr("2.0")>>, <<JStr("hello")>>, <<>>, <<JNum(1)>>, {"foo"}),
      RequestObject(<<JStr("2.0")>>, <<JStr("hello")>>, <<>>, <<JNum(1)>>,
                    {"foo", "bar"}),
      JObj(EmptyMap), JNum(1), JNull, JStr("x") }

RECURSIVE SeqsUpTo(_, _)
SeqsUpTo(S, n) ==
    IF n = 0 THEN {<<>>}
    ELSE LET shorter == SeqsUpTo(S, n - 1)
         IN shorter \cup {Append(q, e) : q \in shorter, e \in S}

Batches == {JList(l) : l \in SeqsUpTo(BatchEntries, MaxBatch)}

\* the payloads of the frames a client sends (the delimiter follows)
Payloads ==
    {<<NotUtf8>>, <<NotJson>>, <<TooDeep>>, <<>>, <<SP>>, <<NUL, SP>>}
    \cup {<<Text(v)>> : v \in Scalars \cup RequestObjects \cup Batches}

\* whether a request of the JSON value v names the method "ext"
NamesExt(v) ==
    \/ v.t = "obj" /\ "method" \in DOMAIN v.o /\ v.o["method"] = JStr("ext")
    \/ v.t = "list" /\ \E i \in 1..Len(v.l) :
           /\ v.l[i].t = "obj"
           /\ "method" \in DOMAIN v.l[i].o
           /\ v.l[i].o["method"] = JStr("ext")

\* what the application's callable may do while the frame is processed; it is
\* only ever registered under the name "ext", so its behaviour is an input
\* only for the frames that name it
BehavioursFor(payload) ==
    IF \E i \in 1..Len(payload) : payload[i].k = "json" /\ NamesExt(payload[i].v)
    THEN ExtBehaviours
    ELSE {Returned(JNull)}

(***************************************************************************)
(* State.                                                                  *)
(***************************************************************************)
VARIABLES
    methods,   \* JSONRPCProvider._methods: name -> callable
    buffer,    \* ConnectionHandler.buffer: a class attribute, the one QByteArray
               \* every handler appends to
    inbox,     \* connection with a live handler -> bytes readable from its socket
    closed,    \* the connections whose socket is closed or whose handler is gone
    owner,     \* for each byte of buffer, the connection it was received on
    pc,        \* "idle"; "handled" when _handle_new_data has just returned;
               \* "app" while application code works on the registry
    run,       \* <<what that run of _handle_new_data started from>> (<<>>: none)
    handled,   \* the frames the last run of _handle_new_data executed
    sent,      \* the bytes written to the socket during that run
    uncaught,  \* the exception that left that run (<<>>: none)
    log,       \* the registry calls the application code has made so far
    snapshot,  \* the dict it got from the methods property (<<>>: none)
    squished,  \* browser: a call of squish_string, its arguments and outcome
    dlm,       \* browser: the DownloadManagerModel
    item,      \* browser: a DownloadManagerItem
    app        \* browser: the BrowserApp

\* the state of quahl.ipc and the state of quahl.browser
ipc == <<methods, buffer, inbox, closed, owner, pc, run, handled, sent, uncaught,
         log, snapshot>>
browser == <<squished, dlm, item, app>>

vars == <<methods, buffer, inbox, closed, owner, pc, run, handled, sent, uncaught,
          log, snapshot, squished, dlm, item, app>>

\* the connections a client may open
Conns == {"c1", "c2"}

NoConnections == [c \in {} |-> <<>>]

\* the download ids of the model and the uuids windows are created with
MaxIds == 2
Ids == 1..MaxIds
MaxWindows == 4
UUIDs == {"u" \o ToString(n) : n \in 1..MaxWindows}

\* DownloadManagerModel.__init__: no downloads, no handled ids.  accepted and
\* inserted count, for each id, the calls of download.accept() and the
\* insertions handle_download_request has made; emitted are the signals of the
\* last call, call what it was and the state it began with
NewModel ==
    [downloads |-> EmptyMap, handled |-> <<>>,
     accepted |-> [i \in Ids |-> 0], inserted |-> [i \in Ids |-> 0],
     emitted |-> <<>>, call |-> <<>>]

\* DownloadManagerItem.__init__: both byte counts and the percentage are 0
\* (the percentage is kept as the fraction n/d in lowest terms)
NewItem ==
    [received_bytes |-> 0, total_bytes |-> 0, progress_percent |-> [n |-> 0, d |-> 1],
     emitted |-> 0, call |-> <<>>]

\* BrowserApp: _windows is empty until create_window is called
NewApp ==
    [windows |-> EmptyMap, emitted |-> <<>>, exc |-> <<>>, ret |-> "None",
     call |-> <<>>]

\* Server.__init__ builds the RPCInterface; no connection is accepted yet
IpcInit ==
    /\ methods = RPCInterfaceInit("interface", EmptyMethods)
    /\ buffer = <<>>
    /\ inbox = NoConnections
    /\ closed = {}
    /\ owner = <<>>
    /\ pc = "idle"
    /\ run = <<>>
    /\ handled = <<>>
    /\ sent = <<>>
    /\ uncaught = <<>>
    /\ log = <<>>
    /\ snapshot = <<>>

\* the state after construction
Init ==
    /\ IpcInit
    /\ squished = <<>>
    /\ dlm = NewModel
    /\ item = NewItem
    /\ app = NewApp

\* self._methods: no instance has an attribute of that name, so the lookup
\* finds the class attribute, whoever self is
MethodsOf(self) == methods

\* the instances the application code can call: the Server's interface, and the
\* second RPCInterface once it has built it
Alive(self) ==
    self = "interface" \/ \E i \in DOMAIN log : log[i].op = "RPCInterface"

\* application code may make one more call
InApp == pc \in {"idle", "app"} /\ Len(log) < MaxCalls

\* the call is recorded with the registry before and after it
Called(op, self, arg, alias, is_str, ret) ==
    /\ log' = Append(log, [op |-> op, self |-> self, arg |-> arg, alias |-> alias,
                           is_str |-> is_str, ret |-> ret,
                           before |-> methods, after |-> methods'])
    /\ pc' = "app"
    /\ UNCHANGED <<buffer, inbox, closed, owner, run, handled, sent, uncaught>>
    /\ UNCHANGED browser

\* the application registers a method: self.add_method(method, alias)
AddMethod(self, method, alias) ==
    /\ InApp
    /\ Alive(self)
    /\ methods' = add_method(MethodsOf(self), method, alias).methods
    /\ Called("add_method", self, method, alias, FALSE,
              add_method(MethodsOf(self), method, alias).ret)
    /\ UNCHANGED snapshot

\* the application removes a method, by name or by callable:
\* self.remove_method(method_or_alias)
RemoveMethod(self, is_str, method_or_alias) ==
    /\ InApp
    /\ Alive(self)
    /\ methods' = remove_method(MethodsOf(self), is_str, method_or_alias).methods
    /\ Called("remove_method", self, method_or_alias, "", is_str,
              remove_method(MethodsOf(self), is_str, method_or_alias).ret)
    /\ UNCHANGED snapshot

\* the application builds a second RPCInterface: RPCInterface()
NewInterface ==
    /\ InApp
    /\ ~Alive("second")
    /\ methods' = RPCInterfaceInit("second", MethodsOf("second"))
    /\ Called("RPCInterface", "second", "", "", FALSE, "None")
    /\ UNCHANGED snapshot

\* the application reads the property: d = self.methods
GetMethods(self) ==
    /\ InApp
    /\ Alive(self)
    /\ snapshot = <<>>
    /\ snapshot' = <<methods_property(MethodsOf(self))>>
    /\ methods' = methods
    /\ Called("methods", self, "", "", FALSE, "dict")

\* the items of the dict the application holds
SnapshotItems == IF snapshot[1].live THEN methods ELSE snapshot[1].d

\* the application changes the dict it holds to the items d
Mutated(d) ==
    IF snapshot[1].live
    THEN methods' = d /\ UNCHANGED snapshot
    ELSE methods' = methods /\ snapshot' = <<[snapshot[1] EXCEPT !.d = d]>>

\* d[name] = value: adds an entry or replaces one
SetSnapshotItem(name, value) ==
    /\ InApp
    /\ snapshot # <<>>
    /\ Mutated(SetItem(SnapshotItems, name, value))
    /\ Called("setitem", "", value, name, TRUE, "None")

\* del d[name]
DelSnapshotItem(name) ==
    /\ InApp
    /\ snapshot # <<>>
    /\ name \in DOMAIN SnapshotItems
    /\ Mutated(DelItem(SnapshotItems, name))
    /\ Called("delitem", "", "", name, TRUE, "None")

\* the connections on which the bytes of the buffer were received, after the
\* run r of the handler of connection c: an executed frame clears the buffer
Owners(c, r) ==
    IF r.handled # <<>> THEN [i \in 1..Len(r.buffer) |-> c]
    ELSE owner \o [i \in 1..(Len(r.buffer) - Len(buffer)) |-> c]

\* the state after the run r of _handle_new_data in the handler of connection
\* c, which found the bytes avail in the socket.  ctor: the run is the call in
\* ConnectionHandler.__init__, which writes the greeting next unless an
\* exception has left it; whether the handler of a constructor that raised
\* still serves the socket is up to the garbage collector (survives)
Ran(c, ctor, avail, r, survives) ==
    /\ inbox' = IF ctor /\ r.uncaught # <<>> /\ ~survives THEN inbox
                ELSE [k \in DOMAIN inbox \cup {c} |->
                         IF k = c THEN r.inbox ELSE inbox[k]]
    /\ closed' = IF ctor /\ r.uncaught # <<>> /\ ~survives THEN closed \cup {c}
                 ELSE closed
    /\ buffer' = r.buffer
    /\ owner' = Owners(c, r)
    /\ methods' = r.methods
    /\ handled' = r.handled
    /\ sent' = Wrote(r.handled)
                   \o (IF ctor /\ r.uncaught = <<>> THEN <<Greeting>> ELSE <<>>)
    /\ uncaught' = r.uncaught
    /\ run' = <<[conn |-> c, ctor |-> ctor, avail |-> avail, buffer |-> buffer,
                 owner |-> owner, closed |-> closed]>>
    /\ pc' = "handled"
    /\ UNCHANGED <<log, snapshot>>
    /\ UNCHANGED browser

\* newConnection: the Server builds a ConnectionHandler for the connection c,
\* whose socket already holds the bytes readable
Accept(c, readable, beh, survives) ==
    /\ pc = "idle"
    /\ c \notin DOMAIN inbox \cup closed
    /\ Ran(c, TRUE, readable, ReadLoop(readable, buffer, methods, beh, <<>>), survives)

\* readyRead: data has arrived on connection c; _handle_new_data runs to its end
HandleNewData(c, data, beh) ==
    /\ pc = "idle"
    /\ c \in DOMAIN inbox
    /\ Ran(c, FALSE, inbox[c] \o data,
           ReadLoop(inbox[c] \o data, buffer, methods, beh, <<>>), FALSE)

\* the socket of connection c closes; no code of the handler runs
Close(c) ==
    /\ pc = "idle"
    /\ c \in DOMAIN inbox
    /\ inbox' = [k \in DOMAIN inbox \ {c} |-> inbox[k]]
    /\ closed' = closed \cup {c}
    /\ UNCHANGED <<methods, buffer, owner, pc, run, handled, sent, uncaught,
                   log, snapshot>>
    /\ UNCHANGED browser

\* control is back in the event loop; the locals of the code that ran are gone
EventLoop ==
    /\ pc \in {"handled", "app"}
    /\ pc' = "idle"
    /\ run' = <<>>
    /\ handled' = <<>>
    /\ sent' = <<>>
    /\ uncaught' = <<>>
    /\ log' = <<>>
    /\ snapshot' = <<>>
    /\ UNCHANGED <<methods, buffer, inbox, closed, owner>>
    /\ UNCHANGED browser

\* one client on one connection sends whole frames; the application works on
\* the registry
Next ==
    \/ \E self \in Instances, m \in {"ext", "hello", NotCallable}, a \in {"", "ext"} :
           AddMethod(self, m, a)
    \/ \E self \in Instances, s \in BOOLEAN,
          m \in {"ext", "hello", "return_", NotCallable} : RemoveMethod(self, s, m)
    \/ NewInterface
    \/ \E self \in Instances : GetMethods(self)
    \/ \E name \in {"hello", "new"} : SetSnapshotItem(name, "ext")
    \/ DelSnapshotItem("hello")
    \/ Accept("c1", <<>>, Returned(JNull), TRUE)
    \/ /\ pc = "idle"
       /\ "c1" \in DOMAIN inbox
       /\ \E p \in Payloads : \E beh \in BehavioursFor(p) :
              HandleNewData("c1", p \o Delimiter, beh)
    \/ EventLoop

Spec == Init /\ [][Next]_vars

\* the pieces in which the clients' bytes arrive: whole frames, several frames
\* at once, and parts of a frame
HelloCall == <<Text(Call("hello", JNum(1)))>>
EchoNotification == <<Text(Notification("echo", JList(<<JStr("x")>>)))>>

Chunks ==
    { HelloCall, <<CR, LF>>, Delimiter, HelloCall \o Delimiter,
      EchoNotification \o Delimiter \o HelloCall \o Delimiter,
      HelloCall \o Delimiter \o <<NotJson>> \o Delimiter \o HelloCall,
      <<TooDeep>> \o Delimiter \o HelloCall \o Delimiter }

\* what a socket may hold when its connection is accepted
Readable == {<<>>, HelloCall, HelloCall \o Delimiter, <<TooDeep>> \o Delimiter}

\* several clients connect, send their bytes in pieces, and disconnect
ConnNext ==
    \/ \E c \in Conns, readable \in Readable, survives \in BOOLEAN :
           Accept(c, readable, Returned(JNull), survives)
    \/ \E c \in Conns, data \in Chunks :
           /\ Len(buffer) <= MaxBuffer
           /\ HandleNewData(c, data, Returned(JNull))
    \/ \E c \in Conns : Close(c)
    \/ EventLoop

ConnSpec == Init /\ [][ConnNext]_vars

(***************************************************************************)
(* Properties.  They are stated over the frames the last run of            *)
(* _handle_new_data executed (handled) and the bytes it wrote (sent).      *)
(***************************************************************************)
\* the payload of frame f is the text of one JSON value
HasValue(f) == ~DecodeRaises(f.raw) /\ Len(Strip(f.raw)) = 1 /\ Strip(f.raw)[1].k = "json"
\* that value
Value(f) == Strip(f.raw)[1].v

\* f yielded one response object
Responded(f) == f.exc = <<>> /\ f.result.t = "single"
\* f yielded the error response with this code
ErrorWith(f, code) ==
    Responded(f) /\ f.result.r.kind = "error" /\ f.result.r.code = code

\* v is an object with 'jsonrpc' == "2.0" and a 'method' key
HasVersionAndMethod(v) ==
    /\ v.t = "obj"
    /\ {"jsonrpc", "method"} \subseteq DOMAIN v.o
    /\ v.o["jsonrpc"] = JStr("2.0")

\* v passes the validation checks of _process_single
PassesValidation(v) ==
    HasVersionAndMethod(v) /\ DOMAIN v.o \subseteq JSONRPC_REQUEST_FIELDS

\* v is a well-formed request that carries an id: the method is a name and
\* params, when present, is an array or an object
WellFormedWithId(v) ==
    /\ PassesValidation(v)
    /\ "id" \in DOMAIN v.o
    /\ v.o["method"].t = "str"
    /\ "params" \in DOMAIN v.o => v.o["params"].t \in {"list", "obj"}

\* C1: the response to a well-formed request that carries an id carries exactly
\* that id, be it a result or an error (MethodNotFound, InvalidParams,
\* InternalError).
C1_IdEchoed ==
    \A i \in DOMAIN handled :
        (HasValue(handled[i]) /\ WellFormedWithId(Value(handled[i])))
        => /\ Responded(handled[i])
           /\ handled[i].result.r.id = Value(handled[i]).o["id"]

\* f is a single request without 'id' whose registered method was called once
\* and returned normally
DispatchedNotification(f) ==
    /\ HasValue(f)
    /\ PassesValidation(Value(f))
    /\ "id" \notin DOMAIN Value(f).o
    /\ Value(f).o["method"].t = "str"
    /\ Value(f).o["method"].s \in DOMAIN f.registry
    /\ Len(f.calls) = 1
    /\ ~f.calls[1].raised

\* C2: a single request without 'id' whose method is registered and returns
\* normally makes process_request return nothing, and _execute_buffer writes no
\* bytes (no payload, no delimiter) to the socket for that frame.
C2_NotificationSilent ==
    \A i \in DOMAIN handled :
        DispatchedNotification(handled[i])
        => /\ handled[i].exc = <<>>
           /\ handled[i].result = NoBytes
           /\ handled[i].wrote = <<>>
           /\ sent = <<>>

C2_Witness ==
    \E i \in DOMAIN handled :
        /\ DispatchedNotification(handled[i])
        /\ handled[i].calls[1].bound
        /\ handled[i].wrote = <<>>

\* every entry of the batch f is a notification that was dispatched and
\* returned normally (none, for the empty array)
AllDispatchedNotifications(f) ==
    /\ HasValue(f)
    /\ Value(f).t = "list"
    /\ \A j \in 1..Len(Value(f).l) :
           /\ PassesValidation(Value(f).l[j])
           /\ "id" \notin DOMAIN Value(f).l[j].o
    /\ Len(f.calls) = Len(Value(f).l)
    /\ \A j \in 1..Len(f.calls) : ~f.calls[j].raised

\* C3: a batch in which no entry yields a response (every entry a successfully
\* dispatched notification, or the empty array) makes process_request return
\* nothing, so no bytes are written for that frame.
C3_SilentBatch ==
    \A i \in DOMAIN handled :
        AllDispatchedNotifications(handled[i])
        => /\ handled[i].result = NoBytes
           /\ handled[i].wrote = <<>>

\* what process_request does with the entry e alone, in the registry and with
\* the behaviour of the application's callable of frame f
Alone(e, f) == Process(e, f.registry, f.beh)

\* the responses the entries get alone, in input order, those of the entries
\* that are not successfully dispatched notifications
RECURSIVE ResponsesAlone(_, _)
ResponsesAlone(l, f) ==
    IF l = <<>> THEN <<>>
    ELSE (IF Alone(Head(l), f).ret = NoBytes THEN <<>>
          ELSE <<Alone(Head(l), f).ret.r>>) \o ResponsesAlone(Tail(l), f)

\* v is a notification or a call: an object with a 'method' key
IsRequest(v) == v.t = "obj" /\ "method" \in DOMAIN v.o

\* C4: for a batch of notifications and calls, the response array has as many
\* elements as there are entries that are not successfully dispatched
\* notifications, and its k-th element is the response of the k-th such entry.
C4_BatchResponseArray ==
    \A i \in DOMAIN handled :
        ( /\ HasValue(handled[i])
          /\ Value(handled[i]).t = "list"
          /\ \A j \in 1..Len(Value(handled[i]).l) : IsRequest(Value(handled[i]).l[j])
          /\ ResponsesAlone(Value(handled[i]).l, handled[i]) # <<>> )
        => /\ handled[i].exc = <<>>
           /\ handled[i].result.t = "batch"
           /\ handled[i].result.rs = ResponsesAlone(Value(handled[i]).l, handled[i])

\* the entry e fails: alone it gets an error response
Fails(e, f) == Alone(e, f).ret.t = "single" /\ Alone(e, f).ret.r.kind = "error"

\* C5: in a batch a failing entry (invalid request, unknown key, non-object
\* element, unknown method, raising handler) never prevents the other entries
\* from being dispatched and from getting their own responses: each sibling
\* request is called as it is alone and its response is the one it gets alone.
C5_SiblingsUnaffected ==
    \A i \in DOMAIN handled :
        (HasValue(handled[i]) /\ Value(handled[i]).t = "list")
        => \A j, k \in 1..Len(Value(handled[i]).l) :
               ( /\ j # k
                 /\ Fails(Value(handled[i]).l[j], handled[i])
                 /\ PassesValidation(Value(handled[i]).l[k]) )
               => /\ \A c \in 1..Len(Alone(Value(handled[i]).l[k], handled[i]).calls) :
                        \E d \in 1..Len(handled[i].calls) :
                            handled[i].calls[d] =
                                Alone(Value(handled[i]).l[k], handled[i]).calls[c]
                  /\ Alone(Value(handled[i]).l[k], handled[i]).ret # NoBytes
                     => /\ handled[i].exc = <<>>
                        /\ handled[i].result.t = "batch"
                        /\ \E d \in 1..Len(handled[i].result.rs) :
                               handled[i].result.rs[d] =
                                   Alone(Value(handled[i]).l[k], handled[i]).ret.r

\* C6: process_request never raises: for every input and every behaviour of the
\* handlers it returns nothing or the bytes of a response; an exception not
\* mapped more specifically becomes an InternalError response.
C6_NeverRaises ==
    /\ uncaught = <<>>
    /\ \A i \in DOMAIN handled :
           /\ handled[i].exc = <<>>
           /\ handled[i].result.t \in {"none", "single", "batch"}

\* C7: a payload that is not valid UTF-8 or not valid JSON gets an error
\* response with code -32700 and id null, and no registered method is invoked.
C7_ParseError ==
    \A i \in DOMAIN handled :
        ~HasValue(handled[i])
        => /\ ErrorWith(handled[i], ParseError)
           /\ handled[i].result.r.id = JNull
           /\ handled[i].calls = <<>>

\* f is a request that passes validation and names (by a string or another
\* JSON scalar) a method the registry does not hold
NamesAbsentMethod(f) ==
    /\ HasValue(f)
    /\ PassesValidation(Value(f))
    /\ Value(f).o["method"].t \notin {"list", "obj"}
    /\ ~( /\ Value(f).o["method"].t = "str"
          /\ Value(f).o["method"].s \in DOMAIN f.registry )

\* C8: a request that passes validation but names a method absent from the
\* registry gets an error response with code -32601 carrying the request's id
\* (null when it has none), and no handler is invoked.
C8_MethodNotFound ==
    \A i \in DOMAIN handled :
        NamesAbsentMethod(handled[i])
        => /\ ErrorWith(handled[i], MethodNotFound)
           /\ handled[i].result.r.id =
                  (IF "id" \in DOMAIN Value(handled[i]).o
                   THEN Value(handled[i]).o["id"] ELSE JNull)
           /\ handled[i].calls = <<>>
           /\ handled[i].methods = handled[i].registry

C8_Witness ==
    \E i \in DOMAIN handled :
        /\ NamesAbsentMethod(handled[i])
        /\ "id" \in DOMAIN Value(handled[i]).o
        /\ Value(handled[i]).o["id"] = JNum(1)
        /\ Value(handled[i]).o["method"] = JStr("hello")
        /\ ErrorWith(handled[i], MethodNotFound)
        /\ handled[i].wrote = <<Payload(handled[i].result), WDelimiter>>

\* C9: a top-level string, number, boolean or null gets an error response with
\* code -32600 and id null.
C9_ScalarInvalidRequest ==
    \A i \in DOMAIN handled :
        (HasValue(handled[i]) /\ Value(handled[i]).t \in {"str", "num", "bool", "null"})
        => /\ ErrorWith(handled[i], InvalidRequest)
           /\ handled[i].result.r.id = JNull

\* C10: a request object with 'jsonrpc' == "2.0" and a 'method' key that also
\* holds keys outside {jsonrpc, method, params, id} gets an error response with
\* code -32600 whose message names the offending keys, be there one or several.
C10_UnknownKeys ==
    \A i \in DOMAIN handled :
        ( /\ HasValue(handled[i])
          /\ HasVersionAndMethod(Value(handled[i]))
          /\ DOMAIN Value(handled[i]).o \ JSONRPC_REQUEST_FIELDS # {} )
        => /\ ErrorWith(handled[i], InvalidRequest)
           /\ handled[i].result.r.message.names =
                  DOMAIN Value(handled[i]).o \ JSONRPC_REQUEST_FIELDS

\* f is a single request object that passes validation and names a registered
\* method
NamesRegisteredMethod(f) ==
    /\ HasValue(f)
    /\ PassesValidation(Value(f))
    /\ Value(f).o["method"].t = "str"
    /\ Value(f).o["method"].s \in DOMAIN f.registry

\* C11: when 'params' is present and is neither an array nor an object (a
\* string, number, boolean or null, the falsy 0, "", false and null included),
\* the response is InvalidRequest (-32600) and the registered method is not
\* invoked.
C11_ParamsShape ==
    \A i \in DOMAIN handled :
        ( /\ NamesRegisteredMethod(handled[i])
          /\ "params" \in DOMAIN Value(handled[i]).o
          /\ Value(handled[i]).o["params"].t \notin {"list", "obj"} )
        => /\ ErrorWith(handled[i], InvalidRequest)
           /\ handled[i].calls = <<>>

\* f is a single request whose registered method was invoked and raised
HandlerRaised(f) ==
    /\ NamesRegisteredMethod(f)
    /\ Len(f.calls) = 1
    /\ f.calls[1].raised

\* C12: when the invoked method raises a TypeError or ValueError the response
\* has code -32602; when it raises any other exception the response has code
\* -32603 and its message is "Internal error: " followed by the exception's
\* text.
C12_HandlerExceptions ==
    \A i \in DOMAIN handled :
        HandlerRaised(handled[i])
        => IF handled[i].calls[1].exc[1].type \in {"TypeError", "ValueError"}
           THEN ErrorWith(handled[i], InvalidParams)
           ELSE /\ ErrorWith(handled[i], InternalError)
                /\ handled[i].result.r.message.text =
                       "Internal error: " \o handled[i].calls[1].exc[1].text

C12_Witness ==
    \E i \in DOMAIN handled :
        /\ HandlerRaised(handled[i])
        /\ handled[i].calls[1].bound
        /\ handled[i].calls[1].exc[1].type = "RuntimeError"
        /\ ErrorWith(handled[i], InternalError)
        /\ handled[i].result.r.message.text = "Internal error: ext: failed"

\* f is a single request object without 'id' whose call does not succeed: it
\* fails validation, names no registered method, has a 'params' that is neither
\* an array nor an object, or its handler raises
FailingNotification(f) ==
    /\ HasValue(f)
    /\ Value(f).t = "obj"
    /\ "id" \notin DOMAIN Value(f).o
    /\ \/ ~NamesRegisteredMethod(f)
       \/ /\ "params" \in DOMAIN Value(f).o
          /\ Value(f).o["params"].t \notin {"list", "obj"}
       \/ \E c \in 1..Len(f.calls) : f.calls[c].raised

\* C13: a request without 'id' whose call does not succeed is not silent:
\* process_request returns an error response with id null, and the response
\* and the delimiter are written to the socket.
C13_FailedNotificationAnswered ==
    \A i \in DOMAIN handled :
        FailingNotification(handled[i])
        => /\ Responded(handled[i])
           /\ handled[i].result.r.kind = "error"
           /\ handled[i].result.r.id = JNull
           /\ handled[i].wrote = <<Payload(handled[i].result), WDelimiter>>

\* C14: every error response to a request object that holds an 'id' key carries
\* that id: the errors for unknown keys, for a malformed 'params', InvalidParams
\* and InternalError as well as the validation errors and MethodNotFound.
C14_ErrorsEchoId ==
    \A i \in DOMAIN handled :
        ( /\ HasValue(handled[i])
          /\ Value(handled[i]).t = "obj"
          /\ "id" \in DOMAIN Value(handled[i]).o
          /\ Responded(handled[i])
          /\ handled[i].result.r.kind = "error" )
        => handled[i].result.r.id = Value(handled[i]).o["id"]

(***************************************************************************)
(* Properties of the registry.  They are stated over the calls the         *)
(* application code has made since it left the event loop (log): each      *)
(* entry holds the call, the value returned and the registry (the one dict *)
(* every instance sees) before and after it.                               *)
(***************************************************************************)
\* the name the add_method call e asks for
RegisteredName(e) == IF e.alias = "" THEN NameOf(e.arg) ELSE e.alias

\* what the registry meths dispatches name to: <<callable>>, or <<>>
Resolve(meths, name) == IF name \in DOMAIN meths THEN <<meths[name]>> ELSE <<>>

\* e is an add_method call with a non-callable or with a name already taken
RefusedAdd(e) ==
    /\ e.op = "add_method"
    /\ \/ e.arg \notin Callables
       \/ RegisteredName(e) \in DOMAIN e.before

\* C15: add_method with a name (the alias, or the callable's __name__) already
\* registered, or with a non-callable, returns False and leaves the registry
\* unchanged; after any sequence of such calls every name still resolves to the
\* callable registered first.
C15_FailedAddKeepsRegistry ==
    /\ \A i \in DOMAIN log :
           RefusedAdd(log[i]) => log[i].ret = "False" /\ log[i].after = log[i].before
    /\ (log # <<>> /\ \A i \in DOMAIN log : RefusedAdd(log[i]))
       => \A name \in DOMAIN methods \cup DOMAIN log[1].before :
              Resolve(methods, name) = Resolve(log[1].before, name)

C15_Witness ==
    /\ Len(log) = 2
    /\ \A i \in DOMAIN log : RefusedAdd(log[i])
    /\ log[1].arg = NotCallable
    /\ log[2].arg = "hello" /\ log[2].alias = "ext"
    /\ log[2].before["ext"] = "ext"
    /\ methods["ext"] = "ext"

\* C16: add_method returns true exactly when it inserted the method, and false
\* exactly when it did not.
C16_AddReturnsWhetherInserted ==
    \A i \in DOMAIN log :
        log[i].op = "add_method"
        => /\ log[i].ret = "True" <=> log[i].after # log[i].before
           /\ log[i].ret = "False" <=> log[i].after = log[i].before

\* the names under which the registry meths holds the callable fn
NamesHolding(meths, fn) == {name \in DOMAIN meths : meths[name] = fn}

\* C17: remove_method given a callable removes the entry that holds that very
\* callable, whatever name it is registered under, and no entry that holds
\* another callable; given a name it removes that name; it returns true iff an
\* entry was removed.
C17_RemoveByIdentity ==
    \A i \in DOMAIN log :
        log[i].op = "remove_method"
        => /\ \A name \in DOMAIN log[i].after : log[i].after[name] = log[i].before[name]
           /\ log[i].ret = "True" <=> DOMAIN log[i].after # DOMAIN log[i].before
           /\ log[i].ret = "False" <=> DOMAIN log[i].after = DOMAIN log[i].before
           /\ log[i].is_str
              => DOMAIN log[i].after = DOMAIN log[i].before \ {log[i].arg}
           /\ ~log[i].is_str
              => /\ DOMAIN log[i].before \ DOMAIN log[i].after
                        \subseteq NamesHolding(log[i].before, log[i].arg)
                 /\ NamesHolding(log[i].before, log[i].arg) # {}
                        => DOMAIN log[i].after # DOMAIN log[i].before

\* e is a change of the dict that the methods property returned
ChangesSnapshot(e) == e.op \in {"setitem", "delitem"}

\* C18: the dict returned by the methods property is a copy: adding, replacing
\* or deleting entries in it leaves what every name of the registry is
\* dispatched to as it was.
C18_MethodsIsCopy ==
    \A i \in DOMAIN log :
        ChangesSnapshot(log[i])
        => \A name \in DOMAIN log[i].before \cup DOMAIN log[i].after \cup {log[i].alias} :
               Resolve(log[i].after, name) = Resolve(log[i].before, name)

C18_Witness ==
    /\ Len(log) = 2
    /\ log[1].op = "methods"
    /\ log[2].op = "setitem" /\ log[2].alias = "hello"
    /\ snapshot # <<>>
    /\ SnapshotItems["hello"] = "ext"
    /\ methods["hello"] = "hello"

\* the name the remove_method call e asks to remove
RemovedName(e) == IF e.is_str THEN e.arg ELSE NameOf(e.arg)

\* the calls i and i + 1 of the log remove a registered name and register it
\* again with another callable
ReRegisters(i) ==
    /\ i + 1 \in DOMAIN log
    /\ log[i].op = "remove_method"
    /\ log[i].ret = "True"
    /\ log[i + 1].op = "add_method"
    /\ log[i + 1].arg \in Callables
    /\ RegisteredName(log[i + 1]) = RemovedName(log[i])
    /\ RemovedName(log[i]) \in DOMAIN log[i].before
    /\ log[i].before[RegisteredName(log[i + 1])] # log[i + 1].arg

\* C19: after a registered name has been removed with remove_method and
\* registered again with a different callable, the registration is not refused
\* and a request for that name is dispatched to the new callable, not to the
\* old one.
C19_ReRegistration ==
    \A i \in DOMAIN log :
        ReRegisters(i)
        => /\ log[i + 1].ret # "False"
           /\ Resolve(log[i + 1].after, RegisteredName(log[i + 1])) = <<log[i + 1].arg>>
           /\ \A c \in DOMAIN ProcessSingle(Call(RegisteredName(log[i + 1]), JNum(1)),
                                           log[i + 1].after, Returned(JNull)).calls :
                  ProcessSingle(Call(RegisteredName(log[i + 1]), JNum(1)),
                                log[i + 1].after, Returned(JNull)).calls[c].fn
                      = log[i + 1].arg
           /\ Len(ProcessSingle(Call(RegisteredName(log[i + 1]), JNum(1)),
                                log[i + 1].after, Returned(JNull)).calls) = 1

C19_Witness ==
    /\ ReRegisters(1)
    /\ log[1].before["ext"] = "ext"
    /\ log[2].arg = "hello" /\ log[2].alias = "ext"
    /\ methods["ext"] = "hello"

\* C20: each instance owns its method table: a call of add_method or
\* remove_method on the second RPCInterface (those of its __init__ included)
\* leaves the table of the Server's interface as it was, and the second
\* RPCInterface dispatches its built-in names to its own bound methods.
C20_OwnTable ==
    \A i \in DOMAIN log :
        ( /\ i = Len(log)
          /\ log[i].op \in {"add_method", "remove_method", "RPCInterface"}
          /\ log[i].self = "second" )
        => /\ MethodsOf("interface") = log[i].before
           /\ log[i].op = "RPCInterface"
              => /\ Resolve(MethodsOf("second"), "echo") = <<Bound("second", "echo")>>
                 /\ Resolve(MethodsOf("second"), "return") = <<Bound("second", "return_")>>
                 /\ Resolve(MethodsOf("second"), "disappear")
                        = <<Bound("second", "disappear")>>
                 /\ Resolve(MethodsOf("second"), "hello") = <<Bound("second", "hello")>>

(***************************************************************************)
(* Properties of the connection handlers.  They are stated over the last   *)
(* run of _handle_new_data: what it started from (run), the frames it      *)
(* executed (handled) and what was written to the socket (sent).           *)
(***************************************************************************)
\* C21: the frame handed to process_request for a connection consists only of
\* bytes received on that connection: the bytes the buffer held when the run
\* of a handler began, which open its first frame, were all received on the
\* handler's own connection.
C21_FramesOfOneConnection ==
    (run # <<>> /\ handled # <<>>)
    => \A k \in DOMAIN run[1].owner : run[1].owner[k] = run[1].conn

\* C22: the bytes of a partial frame received on a connection that has closed
\* are discarded: no frame handed to process_request afterwards holds a byte
\* received on a connection that was closed when the run began.
C22_ClosedBytesDiscarded ==
    (run # <<>> /\ handled # <<>>)
    => \A k \in DOMAIN run[1].owner : run[1].owner[k] \notin run[1].closed

\* raw ends with the 4-byte delimiter and holds it nowhere before its end
IsFrame(raw) ==
    /\ Len(raw) >= 4
    /\ SubSeq(raw, Len(raw) - 3, Len(raw)) = <<CR, LF, CR, LF>>
    /\ \A n \in 4..(Len(raw) - 1) : SubSeq(raw, n - 3, n) # <<CR, LF, CR, LF>>

\* the frames of the run one after the other
RECURSIVE Raws(_)
Raws(frames) == IF frames = <<>> THEN <<>> ELSE Head(frames).raw \o Raws(Tail(frames))

\* the bytes the run left unread in the socket: none, unless an exception left it
Unread == IF uncaught = <<>> THEN <<>> ELSE handled[Len(handled)].unread

\* C23: process_request is called exactly once for each time the buffer ends
\* with the delimiter, with everything accumulated since the previous
\* delimiter, and never on content that does not end with it: the frames of a
\* run, followed by the buffer it leaves and the bytes it left unread, are the
\* buffer it began with followed by the bytes it found, each frame ends with
\* its only delimiter, and the buffer never ends with the delimiter when
\* _handle_new_data has returned.
C23_OneCallPerDelimiter ==
    /\ Len(buffer) < 4 \/ SubSeq(buffer, Len(buffer) - 3, Len(buffer)) # <<CR, LF, CR, LF>>
    /\ run # <<>>
       => /\ \A i \in DOMAIN handled : handled[i].processed /\ IsFrame(handled[i].raw)
          /\ Raws(handled) \o buffer \o Unread = run[1].buffer \o run[1].avail

C23_Witness ==
    /\ run # <<>>
    /\ run[1].buffer # <<>>
    /\ Len(handled) = 2
    /\ buffer # <<>>
    /\ uncaught = <<>>

\* C24: for every processed frame the bytes written are the response returned
\* by process_request followed by one delimiter, or nothing when it returned
\* nothing; in what a run writes a delimiter always follows a response payload.
C24_ResponseThenDelimiter ==
    /\ \A i \in DOMAIN handled :
           handled[i].wrote =
               IF handled[i].exc = <<>> /\ handled[i].result # NoBytes
               THEN <<Payload(handled[i].result), WDelimiter>> ELSE <<>>
    /\ \A k \in DOMAIN sent :
           /\ sent[k] = WDelimiter => k > 1 /\ sent[k - 1].w = "payload"
           /\ sent[k].w = "payload" => k < Len(sent) /\ sent[k + 1] = WDelimiter

C24_Witness ==
    \E i \in DOMAIN handled :
        /\ handled[i].result.t = "batch"
        /\ Len(handled[i].result.rs) = 2
        /\ sent = <<Payload(handled[i].result), WDelimiter>>

\* C25: on every accepted connection the greeting is written exactly once and
\* before anything else: the run of the constructor writes it first, also when
\* a complete frame is readable at that moment, and no later run writes it.
C25_GreetingFirst ==
    run # <<>>
    => IF run[1].ctor
       THEN /\ sent # <<>>
            /\ sent[1] = Greeting
            /\ Cardinality({k \in DOMAIN sent : sent[k] = Greeting}) = 1
       ELSE \A k \in DOMAIN sent : sent[k] # Greeting

\* the responses of the frames in the order of the frames
RECURSIVE InOrder(_)
InOrder(frames) ==
    IF frames = <<>> THEN <<>> ELSE Head(frames).wrote \o InOrder(Tail(frames))

\* C26: within one run frames are processed in arrival order without
\* pipelining: when the response to a frame is written, the bytes of the next
\* frame are all still unread in the socket, and the responses are on the wire
\* in the order of their requests.
C26_InOrderNoPipelining ==
    (run # <<>> /\ ~run[1].ctor)
    => /\ sent = InOrder(handled)
       /\ handled # <<>>
          => run[1].buffer \o run[1].avail = handled[1].raw \o handled[1].unread
       /\ \A i \in DOMAIN handled :
              i + 1 \in DOMAIN handled
              => handled[i].unread = handled[i + 1].raw \o handled[i + 1].unread

C26_Witness ==
    /\ run # <<>>
    /\ ~run[1].ctor
    /\ Len(handled) = 2
    /\ handled[1].wrote # <<>>
    /\ handled[2].wrote # <<>>
    /\ handled[1].wrote # handled[2].wrote
    /\ handled[1].unread = handled[2].raw \o <<Text(Call("hello", JNum(1)))>>

(***************************************************************************)
(* Validation order and dispatch.                                          *)
(***************************************************************************)
\* the code of the earliest check the request object v violates, in the order
\* missing 'jsonrpc', 'jsonrpc' != "2.0", missing 'method', unknown keys,
\* method not registered, 'params' shape; 0 when it violates none
EarliestViolation(v, registry) ==
    IF "jsonrpc" \notin DOMAIN v.o THEN InvalidRequest
    ELSE IF v.o["jsonrpc"] # JStr("2.0") THEN InvalidRequest
    ELSE IF "method" \notin DOMAIN v.o THEN InvalidRequest
    ELSE IF ~(DOMAIN v.o \subseteq JSONRPC_REQUEST_FIELDS) THEN InvalidRequest
    ELSE IF ~(v.o["method"].t = "str" /\ v.o["method"].s \in DOMAIN registry)
    THEN MethodNotFound
    ELSE IF "params" \in DOMAIN v.o /\ v.o["params"].t \notin {"list", "obj"}
    THEN InvalidRequest
    ELSE 0

\* C27: the validation checks are applied in a fixed order and a request that
\* violates several gets the error of the earliest one it violates (a request
\* with an unknown key and an unregistered method gets InvalidRequest).
C27_ValidationOrder ==
    \A i \in DOMAIN handled :
        ( /\ HasValue(handled[i])
          /\ Value(handled[i]).t = "obj"
          /\ "method" \in DOMAIN Value(handled[i]).o
             => Value(handled[i]).o["method"].t \notin {"list", "obj"}
          /\ EarliestViolation(Value(handled[i]), handled[i].registry) # 0 )
        => ErrorWith(handled[i], EarliestViolation(Value(handled[i]), handled[i].registry))

\* the arguments the request object v asks for: none without 'params', the
\* elements of an array in order, the members of an object by name
ArgsOf(v) ==
    IF "params" \notin DOMAIN v.o THEN NoArgs
    ELSE IF v.o["params"].t = "list" THEN PosArgs(v.o["params"].l)
    ELSE KwArgs(v.o["params"].o)

\* f is a valid single request: it passes validation, names a registered
\* method and its 'params', when present, is an array or an object
ValidRequest(f) ==
    /\ NamesRegisteredMethod(f)
    /\ "params" \in DOMAIN Value(f).o => Value(f).o["params"].t \in {"list", "obj"}

\* what the method named by f does when called with the arguments f asks for
Asked(f) == Invoke(f.registry[Value(f).o["method"].s], ArgsOf(Value(f)), f.beh)

\* C28: a valid request invokes the registered method once, with no arguments
\* without 'params', with the array's elements as positional arguments, with
\* the object's members as keyword arguments; when the method returns, the
\* response to a request with an id carries the value returned as its result.
C28_Dispatch ==
    \A i \in DOMAIN handled :
        ValidRequest(handled[i])
        => /\ Len(handled[i].calls) = 1
           /\ handled[i].calls[1].fn
                  = handled[i].registry[Value(handled[i]).o["method"].s]
           /\ handled[i].calls[1].exc = Asked(handled[i]).exc
           /\ handled[i].calls[1].bound = Asked(handled[i]).bound
           /\ ( /\ "id" \in DOMAIN Value(handled[i]).o
                /\ Asked(handled[i]).exc = <<>>
                /\ Serializable(Asked(handled[i]).val) )
              => /\ Responded(handled[i])
                 /\ handled[i].result.r.kind = "result"
                 /\ handled[i].result.r.result = Asked(handled[i]).val

C28_Witness ==
    \E i \in DOMAIN handled :
        /\ ValidRequest(handled[i])
        /\ Value(handled[i]) = CallWith("hello", JList(<<JStr("Alice")>>), JNum(1))
        /\ Responded(handled[i])
        /\ handled[i].result.r.result = JStr("Hello Alice!")

\* C29: single-request validation is applied to every element of a batch,
\* none skipped: a batch whose elements are empty objects or nulls gets an
\* array with one InvalidRequest error for each of them.
C29_EveryElementValidated ==
    \A i \in DOMAIN handled :
        ( /\ HasValue(handled[i])
          /\ Value(handled[i]).t = "list"
          /\ Value(handled[i]).l # <<>>
          /\ \A j \in DOMAIN Value(handled[i]).l : ~Truthy(Value(handled[i]).l[j]) )
        => /\ handled[i].exc = <<>>
           /\ handled[i].result.t = "batch"
           /\ Len(handled[i].result.rs) = Len(Value(handled[i]).l)
           /\ \A j \in DOMAIN handled[i].result.rs :
                  /\ handled[i].result.rs[j].kind = "error"
                  /\ handled[i].result.rs[j].code = InvalidRequest

\* f is a valid single request with an 'id' key whose call returned a value
\* json.dumps accepts
SucceededWithId(f) ==
    /\ ValidRequest(f)
    /\ "id" \in DOMAIN Value(f).o
    /\ Len(f.calls) = 1
    /\ ~f.calls[1].raised
    /\ Serializable(Asked(f).val)

\* C30: only the absence of the 'id' key makes a request a notification: a
\* request whose 'id' is present, be it null, 0 or "", and whose call succeeds
\* gets a result response carrying that id, written to the socket.
C30_NullIdIsNoNotification ==
    \A i \in DOMAIN handled :
        SucceededWithId(handled[i])
        => /\ Responded(handled[i])
           /\ handled[i].result.r.kind = "result"
           /\ handled[i].result.r.id = Value(handled[i]).o["id"]
           /\ handled[i].wrote = <<Payload(handled[i].result), WDelimiter>>

C30_Witness ==
    \E i \in DOMAIN handled :
        /\ SucceededWithId(handled[i])
        /\ Value(handled[i]).o["id"] = JNull
        /\ Value(handled[i]).o["method"] = JStr("hello")
        /\ Responded(handled[i])
        /\ handled[i].result.r.id = JNull
        /\ handled[i].result.r.result = JStr("Hello World!")
        /\ sent = <<Payload(handled[i].result), WDelimiter>>

(***************************************************************************)
(* Chunking of the byte stream.                                            *)
(***************************************************************************)
\* the second of two runs of _handle_new_data on one connection: r1 is what the
\* first run did, rest the bytes that arrive after it; the bytes the first run
\* left unread in the socket are read first
SecondRun(r1, rest, beh) ==
    ReadLoop(r1.inbox \o rest, r1.buffer, r1.methods, beh, r1.handled)

\* the handler finds the buffer buf and receives the bytes avail in two
\* readyRead chunks, the first n bytes and then the others
InTwoChunks(buf, avail, n, meths, beh) ==
    SecondRun(ReadLoop(SubSeq(avail, 1, n), buf, meths, beh, <<>>),
              SubSeq(avail, n + 1, Len(avail)), beh)

\* the frames handed to process_request and what was written back for each
Handed(frames) ==
    [i \in DOMAIN frames |-> [raw |-> frames[i].raw, wrote |-> frames[i].wrote]]

\* C31: on a single connection the frames handed to process_request and the
\* bytes written back do not depend on how the byte stream is split into
\* readyRead chunks: had the bytes a run found arrived in two chunks, split at
\* any place, the same frames would have been handed over and the same bytes
\* written as in the one run that found them all.
C31_ChunkIndependence ==
    ( /\ run # <<>>
      /\ ~run[1].ctor
      /\ \A k \in DOMAIN run[1].owner : run[1].owner[k] = run[1].conn )
    => \A n \in 1..(Len(run[1].avail) - 1) :
           Handed(InTwoChunks(run[1].buffer, run[1].avail, n, methods,
                              Returned(JNull)).handled)
               = Handed(handled)

(***************************************************************************)
(* Invocations.                                                            *)
(***************************************************************************)
\* C32: for each request object processed the registered method is invoked at
\* most once, not at all when the request fails a validation check (missing or
\* wrong 'jsonrpc', missing 'method', unknown keys, unregistered method,
\* 'params' that is neither array nor object), and exactly once for a
\* notification that passes them all.
C32_InvokedAtMostOnce ==
    \A i \in DOMAIN handled :
        (HasValue(handled[i]) /\ Value(handled[i]).t = "obj")
        => /\ Len(handled[i].calls) <= 1
           /\ EarliestViolation(Value(handled[i]), handled[i].registry) # 0
              => handled[i].calls = <<>>
           /\ ( /\ EarliestViolation(Value(handled[i]), handled[i].registry) = 0
                /\ "id" \notin DOMAIN Value(handled[i]).o )
              => Len(handled[i].calls) = 1

(***************************************************************************)
(* Batches whose handlers work on the registry.                            *)
(***************************************************************************)
\* the entries of such a batch: a call of the application's callable and calls
\* of the names it removes or adds
LiveEntries == {Call("ext", JNum(1)), Call("hello", JNum(2)), Call("added", JNum(3))}

LiveBatches == SeqsUpTo(LiveEntries, MaxBatch) \ {<<>>}

\* what the application's callable does when it is called: it registers hello
\* under the alias "added", removes "hello", or leaves the registry alone
RegistryBehaviours ==
    { Registers(Bound("interface", "hello"), "added", JNum(7)),
      Removes("hello", JNum(7)),
      Returned(JNum(7)) }

\* the application registers its callable; a client sends batches
BatchNext ==
    \/ AddMethod("interface", "ext", "")
    \/ Accept("c1", <<>>, Returned(JNull), TRUE)
    \/ /\ pc = "idle"
       /\ "c1" \in DOMAIN inbox
       /\ \E l \in LiveBatches, beh \in RegistryBehaviours :
              HandleNewData("c1", <<Text(JList(l))>> \o Delimiter, beh)
    \/ EventLoop

BatchSpec == Init /\ [][BatchNext]_vars

\* f is a batch of calls that carry an id
IsLiveBatch(f) ==
    /\ HasValue(f)
    /\ Value(f).t = "list"
    /\ Value(f).l # <<>>
    /\ \A j \in DOMAIN Value(f).l : WellFormedWithId(Value(f).l[j])

\* the name entry j of the batch calls
Named(f, j) == Value(f).l[j].o["method"].s

\* the registry once the callable of the application has been called: with the
\* alias added unless the name is taken, or without the name removed
ChangedRegistry(f) ==
    IF "effect" \notin DOMAIN f.beh THEN f.registry
    ELSE IF f.beh.effect.op = "add_method"
    THEN [k \in DOMAIN f.registry \cup {f.beh.effect.alias} |->
             IF k \in DOMAIN f.registry THEN f.registry[k] ELSE f.beh.effect.method]
    ELSE [k \in DOMAIN f.registry \ {f.beh.effect.name} |-> f.registry[k]]

\* the registry entry j is to observe: the one the frame began with, changed
\* if an earlier entry called the application's callable
Seen(f, j) ==
    IF /\ "ext" \in DOMAIN f.registry
       /\ \E i \in DOMAIN Value(f).l : i < j /\ Named(f, i) = "ext"
    THEN ChangedRegistry(f)
    ELSE f.registry

\* C33: the entries of a batch are dispatched in input order against the live
\* registry: when the handler of entry i registers or removes a method, every
\* entry j > i observes the changed registry (MethodNotFound for a removed
\* name, a result for an added one), the entries before i observe the registry
\* as it was, and the change outlives the batch.
C33_LiveRegistry ==
    \A n \in DOMAIN handled :
        IsLiveBatch(handled[n])
        => /\ handled[n].exc = <<>>
           /\ handled[n].result.t = "batch"
           /\ Len(handled[n].result.rs) = Len(Value(handled[n]).l)
           /\ \A j \in DOMAIN Value(handled[n]).l :
                  /\ j \in DOMAIN handled[n].result.rs
                  /\ handled[n].result.rs[j].id = Value(handled[n]).l[j].o["id"]
                  /\ IF Named(handled[n], j) \in DOMAIN Seen(handled[n], j)
                     THEN handled[n].result.rs[j].kind = "result"
                     ELSE /\ handled[n].result.rs[j].kind = "error"
                          /\ handled[n].result.rs[j].code = MethodNotFound
           /\ handled[n].methods
                  = Seen(handled[n], Len(Value(handled[n]).l) + 1)
           /\ methods = handled[Len(handled)].methods

C33_Witness ==
    \E n \in DOMAIN handled :
        /\ IsLiveBatch(handled[n])
        /\ Value(handled[n]).l
               = <<Call("added", JNum(3)), Call("ext", JNum(1)), Call("added", JNum(3))>>
        /\ "added" \notin DOMAIN handled[n].registry
        /\ handled[n].result.t = "batch"
        /\ Len(handled[n].result.rs) = 3
        /\ handled[n].result.rs[1].code = MethodNotFound
        /\ handled[n].result.rs[2].result = JNum(7)
        /\ handled[n].result.rs[3].result = JStr("Hello World!")
        /\ "added" \in DOMAIN methods

(***************************************************************************)
(* Frames without payload.                                                 *)
(***************************************************************************)
\* every byte of the frame is one of CR, LF, NUL and space
IsBlank(raw) == \A k \in DOMAIN raw : raw[k].k \in {"cr", "lf", "nul", "sp"}

\* C34: a frame whose payload is empty (the delimiter alone, or only
\* whitespace and NUL before it) is not ignored: it is handed to
\* process_request, and a ParseError (-32700) response with id null followed by
\* the delimiter is written back.
C34_EmptyFrameParseError ==
    \A i \in DOMAIN handled :
        IsBlank(handled[i].raw)
        => /\ handled[i].processed
           /\ ErrorWith(handled[i], ParseError)
           /\ handled[i].result.r.id = JNull
           /\ handled[i].wrote = <<Payload(handled[i].result), WDelimiter>>

C34_Witness ==
    /\ Len(handled) = 1
    /\ handled[1].raw = <<CR, LF, CR, LF>>
    /\ handled[1].processed
    /\ handled[1].result.t = "single"
    /\ handled[1].result.r.code = ParseError
    /\ sent = <<Payload(handled[1].result), WDelimiter>>

(***************************************************************************)
(* The built-in method disappear.                                          *)
(***************************************************************************)
\* f is a valid single request that names the built-in method disappear
CallsDisappear(f) ==
    /\ ValidRequest(f)
    /\ Value(f).o["method"] = JStr("disappear")
    /\ NameOf(f.registry["disappear"]) = "disappear"

\* C35 as stated: every call of disappear fails with an InternalError (-32603)
\* response and leaves the registered methods unchanged.
C35_DisappearInternalError ==
    \A i \in DOMAIN handled :
        CallsDisappear(handled[i])
        => /\ ErrorWith(handled[i], InternalError)
           /\ handled[i].methods = handled[i].registry

\* C35, amended: a call of disappear always fails and leaves the registered
\* methods unchanged, and no exception leaves the frame.  Without arguments
\* ('params' absent or empty) the response is InternalError (-32603) and names
\* the missing attribute 'toggle'; with arguments the call fails before the
\* method's body runs and the response is InvalidParams (-32602).
C35_DisappearFails ==
    \A i \in DOMAIN handled :
        CallsDisappear(handled[i])
        => /\ handled[i].exc = <<>>
           /\ handled[i].methods = handled[i].registry
           /\ IF ArgsOf(Value(handled[i])) = NoArgs
              THEN /\ ErrorWith(handled[i], InternalError)
                   /\ handled[i].result.r.message.text =
                          "Internal error: 'RPCInterface' object has no attribute 'toggle'"
              ELSE ErrorWith(handled[i], InvalidParams)

C35_Witness ==
    \E i \in DOMAIN handled :
        /\ CallsDisappear(handled[i])
        /\ Value(handled[i]) = Call("disappear", JNum(1))
        /\ ErrorWith(handled[i], InternalError)
        /\ handled[i].calls # <<>>
        /\ handled[i].calls[1].bound
        /\ methods = handled[i].registry
        /\ sent = <<Payload(handled[i].result), WDelimiter>>

(***************************************************************************)
(* browser/helpers.py: squish_string.  A string is a sequence of           *)
(* characters; the characters of s are numbered, those of the ellipsis are *)
(* all 0.                                                                  *)
(***************************************************************************)
MaxLen == 4
MaxLeave == 2
MaxEllipsis == 2

\* the string of n different characters, and the ellipsis of n characters
Str(n) == [i \in 1..n |-> i]
Dots(n) == [i \in 1..n |-> 0]

\* an int | None argument: None is <<>>, the int n is <<n>>
IntTruthy(x) == x # <<>> /\ x[1] # 0
\* x or 0
OrZero(x) == IF x = <<>> THEN 0 ELSE x[1]

\* what a call does: it returns a string or raises
SReturn(str) == [raised |-> "", val |-> str]
SRaise(type) == [raised |-> type, val |-> <<>>]

\* a slice bound as Python reads it: negative counts from the end, and the
\* result is clipped to the string
Clip(s, i) ==
    IF i < 0 THEN (IF i + Len(s) < 0 THEN 0 ELSE i + Len(s))
    ELSE IF i > Len(s) THEN Len(s) ELSE i

\* s[0:j]
SliceTo(s, j) == SubSeq(s, 1, Clip(s, j))
\* s[i:]
SliceFrom(s, i) == SubSeq(s, Clip(s, i) + 1, Len(s))

\* lines 163-169: the exception that leaves the check of min_len.  The
\* ValueError is built and dropped: there is no raise statement
min_len_check(max_len, leave_left, leave_right, el_len) == ""

\* lines 173-194: central squishing
squish_centrally(s, max_len, ellipsis) ==
    LET s_len == Len(s)
        el_len == Len(ellipsis)
        overflow == s_len - max_len
        left_len == s_len \div 2
        right_len == (s_len + 1) \div 2
        remove_left == el_len \div 2 + overflow \div 2
        remove_right == (el_len + 1) \div 2 + (overflow + 1) \div 2
    IN SliceTo(s, left_len - remove_left) \o ellipsis
           \o SliceFrom(s, right_len + remove_right)

\* squish_string(s, max_len, leave_left, leave_right, ellipsis)
squish_string(s, max_len, leave_left, leave_right, ellipsis) ==
    IF min_len_check(max_len, leave_left, leave_right, Len(ellipsis)) # ""
    THEN SRaise(min_len_check(max_len, leave_left, leave_right, Len(ellipsis)))
    ELSE IF Len(s) <= max_len THEN SReturn(s)
    ELSE IF ~IntTruthy(leave_left) /\ ~IntTruthy(leave_right)
    THEN SReturn(squish_centrally(s, max_len, ellipsis))
    ELSE SRaise("NotImplementedError")

\* the calls a caller may make
SquishCalls ==
    { [s |-> Str(n), max_len |-> m, leave_left |-> l, leave_right |-> r,
       ellipsis |-> Dots(e), out |-> <<>>] :
        n \in 0..MaxLen, m \in 0..MaxLen, l \in Opt(0..MaxLeave),
        r \in Opt(0..MaxLeave), e \in 0..MaxEllipsis }

\* the rest of the program is as constructed; a call of squish_string is about
\* to be made
SquishInit ==
    /\ IpcInit
    /\ squished \in {<<c>> : c \in SquishCalls}
    /\ dlm = NewModel
    /\ item = NewItem
    /\ app = NewApp

\* the call is made
SquishString ==
    /\ squished # <<>>
    /\ squished[1].out = <<>>
    /\ squished' = <<[squished[1] EXCEPT !.out =
           <<squish_string(squished[1].s, squished[1].max_len,
                           squished[1].leave_left, squished[1].leave_right,
                           squished[1].ellipsis)>>]>>
    /\ UNCHANGED <<ipc, dlm, item, app>>

SquishNext == SquishString

SquishSpec == SquishInit /\ [][SquishNext]_vars

\* C36: squish_string raises ValueError whenever leave_left + leave_right +
\* len(ellipsis) exceeds max_len (None counting as 0), and returns the string
\* unchanged whenever len(s) <= max_len and that sum does not exceed max_len.
C36_SquishValueError ==
    (squished # <<>> /\ squished[1].out # <<>>)
    => IF OrZero(squished[1].leave_left) + OrZero(squished[1].leave_right)
              + Len(squished[1].ellipsis) > squished[1].max_len
       THEN squished[1].out[1].raised = "ValueError"
       ELSE Len(squished[1].s) <= squished[1].max_len
            => squished[1].out[1] = SReturn(squished[1].s)

(***************************************************************************)
(* browser/downloadmanager.py: DownloadManagerModel.  _downloads maps an   *)
(* id to its item, of which the model keeps whether its download is alive; *)
(* _handled_download_ids is a list.                                        *)
(***************************************************************************)
MaxAccepts == 2

\* the elements of a list
Range(l) == {l[i] : i \in DOMAIN l}

\* a call begins: no signal emitted yet; the state it began with is kept
Began(m, op, arg) ==
    [m EXCEPT !.emitted = <<>>,
              !.call = <<[op |-> op, arg |-> arg,
                          before |-> [downloads |-> m.downloads,
                                      handled |-> m.handled,
                                      accepted |-> m.accepted]]>>]

\* DownloadManagerModel.insert_item(item), item.id = id
insert_item(m, id) ==
    IF id \notin DOMAIN m.downloads
    THEN [m EXCEPT !.downloads = [k \in DOMAIN m.downloads \cup {id} |->
                                     IF k = id THEN TRUE ELSE m.downloads[k]],
                   !.emitted = Append(@, "items_inserted")]
    ELSE m

\* handle_download_request without the test of _handled_download_ids
handle_download_request_unguarded(m, id) ==
    [insert_item([m EXCEPT !.accepted[id] = @ + 1, !.handled = Append(@, id)], id)
        EXCEPT !.inserted[id] = IF id \in DOMAIN m.downloads THEN @ ELSE @ + 1]

\* DownloadManagerModel.handle_download_request(download), download.id() = id
handle_download_request(m, id) ==
    IF id \in Range(m.handled) THEN m
    ELSE [insert_item([m EXCEPT !.accepted[id] = @ + 1,
                                !.handled = Append(@, id)], id)
             EXCEPT !.inserted[id] = IF id \in DOMAIN m.downloads THEN @ ELSE @ + 1]

\* DownloadManagerModel.remove_item(item_or_id)
remove_item(m, id) ==
    IF id \in DOMAIN m.downloads
    THEN [m EXCEPT !.downloads = [k \in DOMAIN m.downloads \ {id} |-> m.downloads[k]],
                   !.emitted = Append(@, "items_removed")]
    ELSE m

\* DownloadManagerModel.remove_all(dead_only)
remove_all(m, dead_only) ==
    LET remove == {id \in DOMAIN m.downloads : ~(dead_only /\ m.downloads[id])}
    IN IF remove # {}
       THEN [m EXCEPT !.downloads = [k \in DOMAIN m.downloads \ remove |->
                                        m.downloads[k]],
                      !.emitted = Append(@, "items_removed")]
       ELSE m

\* the profile's downloadRequested signal calls the slot
HandleDownloadRequest(id) ==
    /\ dlm.accepted[id] < MaxAccepts
    /\ dlm' = handle_download_request(Began(dlm, "handle_download_request", id), id)
    /\ UNCHANGED <<ipc, squished, item, app>>

\* another object inserts an item of its own making
InsertItem(id) ==
    /\ dlm' = insert_item(Began(dlm, "insert_item", id), id)
    /\ UNCHANGED <<ipc, squished, item, app>>

\* the user removes one download from the list
RemoveItem(id) ==
    /\ dlm' = remove_item(Began(dlm, "remove_item", id), id)
    /\ UNCHANGED <<ipc, squished, item, app>>

\* the user clears the list, or clears the downloads that are over
RemoveAll(dead_only) ==
    /\ dlm' = remove_all(Began(dlm, "remove_all", 0), dead_only)
    /\ UNCHANGED <<ipc, squished, item, app>>

\* the download of an item completes, is cancelled or is interrupted: the
\* item's state is no longer alive
DownloadOver(id) ==
    /\ id \in DOMAIN dlm.downloads
    /\ dlm.downloads[id]
    /\ dlm' = [Began(dlm, "state", id) EXCEPT !.downloads[id] = FALSE]
    /\ UNCHANGED <<ipc, squished, item, app>>

DownloadNext ==
    \/ \E id \in Ids : HandleDownloadRequest(id)
    \/ \E id \in Ids : InsertItem(id)
    \/ \E id \in Ids : RemoveItem(id)
    \/ \E dead_only \in BOOLEAN : RemoveAll(dead_only)
    \/ \E id \in Ids : DownloadOver(id)

DownloadSpec == Init /\ [][DownloadNext]_vars

\* a is the beginning of b
IsPrefix(a, b) == Len(a) <= Len(b) /\ SubSeq(b, 1, Len(a)) = a

\* the last call was a request for an id that had been handled before
RepeatedRequest ==
    /\ dlm.call # <<>>
    /\ dlm.call[1].op = "handle_download_request"
    /\ \E i \in DOMAIN dlm.call[1].before.handled :
           dlm.call[1].before.handled[i] = dlm.call[1].arg

\* C37: handle_download_request accepts and inserts a download at most once
\* per id over the model's lifetime: a repeated request for an id already
\* handled does nothing, also after the item was removed with remove_item or
\* remove_all, and no call removes an id from _handled_download_ids.
C37_HandledOnce ==
    /\ \A id \in Ids : dlm.accepted[id] <= 1 /\ dlm.inserted[id] <= 1
    /\ dlm.call # <<>> => IsPrefix(dlm.call[1].before.handled, dlm.handled)
    /\ RepeatedRequest
       => /\ dlm.downloads = dlm.call[1].before.downloads
          /\ dlm.handled = dlm.call[1].before.handled
          /\ dlm.accepted = dlm.call[1].before.accepted
          /\ dlm.emitted = <<>>

C37_Witness ==
    /\ RepeatedRequest
    /\ dlm.call[1].arg \notin DOMAIN dlm.call[1].before.downloads
    /\ dlm.call[1].arg \notin DOMAIN dlm.downloads
    /\ dlm.accepted[dlm.call[1].arg] = 1
    /\ dlm.inserted[dlm.call[1].arg] = 1

(***************************************************************************)
(* browser/downloadmanager.py: DownloadManagerItem, its progress.          *)
(***************************************************************************)
MaxBytes == 3

RECURSIVE Gcd(_, _)
Gcd(a, b) == IF b = 0 THEN a ELSE Gcd(b, a % b)

\* the number n/d, d > 0, in lowest terms: two quotients of small integers are
\* the same float exactly when they are the same fraction
Fraction(n, d) == [n |-> n \div Gcd(n, d), d |-> d \div Gcd(n, d)]

\* lines 212-214: 100 when total_bytes is not positive, else
\* (received_bytes / total_bytes) * 100
Percent(received_bytes, total_bytes) ==
    IF total_bytes > 0 THEN Fraction(100 * received_bytes, total_bytes)
    ELSE Fraction(100, 1)

\* DownloadManagerItem.progress_bytes
progress_bytes(it) == <<it.received_bytes, it.total_bytes>>

\* DownloadManagerItem._set_progress(received_bytes, total_bytes): line 209
\* stores received_bytes in _total_bytes and line 210 total_bytes in
\* _received_bytes
set_progress(it, received_bytes, total_bytes) ==
    LET bytes_differ == progress_bytes(it) # <<received_bytes, total_bytes>>
        percent_differs ==
            it.progress_percent # Percent(received_bytes, total_bytes)
    IN [received_bytes |-> IF bytes_differ THEN total_bytes ELSE it.received_bytes,
        total_bytes |-> IF bytes_differ THEN received_bytes ELSE it.total_bytes,
        progress_percent |-> Percent(received_bytes, total_bytes),
        emitted |-> IF bytes_differ \/ percent_differs THEN 1 ELSE 0,
        call |-> <<[received_bytes |-> received_bytes, total_bytes |-> total_bytes,
                    before |-> [received_bytes |-> it.received_bytes,
                                total_bytes |-> it.total_bytes,
                                progress_percent |-> it.progress_percent]]>>]

\* the download reports its progress; totalBytes() is -1 while the size is
\* unknown
SetProgress(received_bytes, total_bytes) ==
    /\ item' = set_progress(item, received_bytes, total_bytes)
    /\ UNCHANGED <<ipc, squished, dlm, app>>

ItemNext ==
    \E received_bytes \in 0..MaxBytes, total_bytes \in -1..MaxBytes :
        SetProgress(received_bytes, total_bytes)

ItemSpec == Init /\ [][ItemNext]_vars

\* C38: after _set_progress(received_bytes, total_bytes) the progress_bytes
\* property returns (received_bytes, total_bytes) in that order, and
\* progress_changed is emitted exactly when the stored byte counts or the
\* percentage changed.
C38_ProgressBytes ==
    item.call # <<>>
    => /\ progress_bytes(item)
              = <<item.call[1].received_bytes, item.call[1].total_bytes>>
       /\ item.emitted = 1
          <=> \/ progress_bytes(item) # <<item.call[1].before.received_bytes,
                                          item.call[1].before.total_bytes>>
              \/ item.progress_percent # item.call[1].before.progress_percent

(***************************************************************************)
(* browser/app.py: BrowserApp, the window registry.  _windows maps a uuid  *)
(* to its window; a BrowserWindow is known by the uuid it was created      *)
(* with.                                                                   *)
(***************************************************************************)
\* the default of the uuid parameter
None == "None"

\* a signal emitted with an argument
Signal(name, arg) == [signal |-> name, arg |-> arg]

\* a call begins on the app a
AppBegan(a, op, uuid, sender) ==
    [a EXCEPT !.emitted = <<>>, !.exc = <<>>, !.ret = "None",
              !.call = <<[op |-> op, uuid |-> uuid, sender |-> sender,
                          before |-> a.windows]>>]

\* BrowserApp.create_window: the window is registered under a uuid that is no
\* key of the registry, and window_created is emitted
create_window(a, uuid) ==
    [a EXCEPT !.windows = [k \in DOMAIN a.windows \cup {uuid} |->
                              IF k = uuid THEN uuid ELSE a.windows[k]],
              !.emitted = Append(@, Signal("window_created", uuid))]

\* BrowserApp._check_windows_remaining
check_windows_remaining(a) ==
    [a EXCEPT !.emitted = IF Cardinality(DOMAIN a.windows) <= 0
                          THEN Append(@, Signal("all_windows_removed", None))
                          ELSE @,
              !.ret = ToString(Cardinality(DOMAIN a.windows))]

\* del self._windows[key]; self.window_removed.emit(key);
\* return self._check_windows_remaining()
Removed(a, key) ==
    IF key \notin DOMAIN a.windows
    THEN [a EXCEPT !.exc = <<Exc("KeyError", key)>>]
    ELSE check_windows_remaining(
             [a EXCEPT !.windows = [k \in DOMAIN a.windows \ {key} |-> a.windows[k]],
                       !.emitted = Append(@, Signal("window_removed", key))])

\* BrowserApp._remove_window(uuid), sender() being the window `sender`.  Line
\* 165 deletes the key uuid, which line 158 has found to be no key
remove_window(a, uuid, sender) ==
    IF uuid \in DOMAIN a.windows THEN Removed(a, uuid)
    ELSE IF sender \in DOMAIN a.windows THEN Removed(a, uuid)
    ELSE IF \E key \in DOMAIN a.windows : a.windows[key] = sender
    THEN Removed(a, CHOOSE key \in DOMAIN a.windows : a.windows[key] = sender)
    ELSE a

\* the user opens a window
CreateWindow(uuid) ==
    /\ uuid \notin DOMAIN app.windows
    /\ app' = create_window(AppBegan(app, "create_window", uuid, None), uuid)
    /\ UNCHANGED <<ipc, squished, dlm, item>>

\* a signal of the window `sender` calls the slot: about_to_close passes the
\* window's uuid, a signal without argument leaves the default None, and a
\* window may announce its closing again when it is no longer registered
RemoveWindow(uuid, sender) ==
    /\ app' = remove_window(AppBegan(app, "_remove_window", uuid, sender), uuid, sender)
    /\ UNCHANGED <<ipc, squished, dlm, item>>

AppNext ==
    \/ \E uuid \in UUIDs : CreateWindow(uuid)
    \/ \E sender \in UUIDs : \E uuid \in {sender, None} : RemoveWindow(uuid, sender)

AppSpec == Init /\ [][AppNext]_vars

\* the last call was _remove_window for a closing window that was registered
ClosingRegistered ==
    /\ app.call # <<>>
    /\ app.call[1].op = "_remove_window"
    /\ app.call[1].sender \in DOMAIN app.call[1].before

\* C39: _remove_window removes exactly the closing window's entry from the
\* registry without raising, whether the window is identified by the uuid
\* argument or, when that is no key, by the sender; window_removed is emitted
\* with the removed key, and all_windows_removed exactly when the registry
\* becomes empty.
C39_RemoveWindow ==
    ClosingRegistered
    => /\ app.exc = <<>>
       /\ DOMAIN app.windows = DOMAIN app.call[1].before \ {app.call[1].sender}
       /\ app.emitted =
              <<Signal("window_removed", app.call[1].sender)>>
              \o (IF DOMAIN app.windows = {}
                  THEN <<Signal("all_windows_removed", None)>> ELSE <<>>)

====
